---- MODULE Spec2Model ----
(***************************************************************************)
(* Rate limiter of devhuset-oss/ratelimit: the Ratelimit facade with its   *)
(* fixed-window engine (INCR / EXPIRE / TTL) and its sliding-window engine  *)
(* (one server-side Lua script), run by concurrent callers against one     *)
(* shared store.  Instants are integer milliseconds; the time provider and  *)
(* the store read the same clock.  The engines are those of ratelimit.ts   *)
(* on the iovalkey client (time_provider, response with limit and          *)
(* retry_after) and the script is the one client.ts registers as           *)
(* slidingWindowRateLimit.  Counts and instants stay far below 2^53, where *)
(* Lua's floating division followed by math.floor / math.ceil equals the   *)
(* integer floor / ceiling division used here.                             *)
(***************************************************************************)
EXTENDS Integers, Sequences, FiniteSets, TLC

(* ---------------------------- bounds ----------------------------------- *)
\* number of concurrent callers of limit()
NumCallers == 2
\* total number of limit() calls started in one behaviour
MaxCalls == 3
\* the configured limit is drawn from 1..MaxLimit
MaxLimit == 2
\* the configured window (seconds) is drawn from 1..MaxWindow
MaxWindow == 2
\* the clock advances in ticks of TickMs milliseconds, at most MaxTicks times
TickMs == 1000
MaxTicks == 4

Callers == 1..NumCallers
Identifiers == {"a"}
\* TTL marker of a key that has no expiration
NoTtl == -1
\* private script_sha: string | null = null
NoSha == "null"

VARIABLES
    built,     \* outcome of new Ratelimit(...): "new" before the constructor ran
    script_sha,   \* handle of the loaded script cached by the limiter that
                  \* loads the script itself (NoSha: none cached)
    script_cache, \* the handles of the scripts the store has loaded
    options,   \* RatelimitOptions given to the constructor (immutable)
    now,       \* the clock read by time_provider() and by the store
    store,     \* the keyspace: key |-> [val, exp] (exp: absolute ms, or NoTtl)
    pc,        \* per caller: position inside limit()
    loc,       \* per caller: locals of the running limit() call
    calls,     \* number of limit() calls started so far
    overlapped,\* history: some call was entered while another was in flight
    log        \* history: the calls returned so far, in order of return

vars == <<built, script_sha, script_cache, options, now, store, pc, loc, calls,
          overlapped, log>>

(* --------------------------- pure helpers ------------------------------ *)
Max(a, b) == IF a >= b THEN a ELSE b
Min(a, b) == IF a <= b THEN a ELSE b
\* math.ceil(a / b) of the script, for a >= 0 and b > 0
CeilDiv(a, b) == (a + b - 1) \div b

\* slip: the configured prefix is ignored
getKeyOf_default_prefix_only(configured_prefix, identifier, suffix) ==
    "ratelimit" \o ":" \o identifier \o ":" \o suffix
\* `${prefix}:${identifier}:${suffix}` with prefix = options.prefix || 'ratelimit'
getKeyOf(configured_prefix, identifier, suffix) ==
    LET prefix == IF configured_prefix = "" THEN "ratelimit" ELSE configured_prefix
    IN  prefix \o ":" \o identifier \o ":" \o suffix
\* slip: the identifier is left out of the key
getKey_without_identifier(identifier, suffix) ==
    getKeyOf(options.prefix, "", suffix)
\* this.getKey(identifier, suffix), with the prefix of this limiter's options
getKey(identifier, suffix) == getKeyOf(options.prefix, identifier, suffix)

\* this.options.window * 1000
window_ms == options.window * 1000
\* Math.floor(now / (window_size * 1000))
current_window(t) == t \div window_ms
\* slip: the start of the window instead of its end
window_end_is_window_start(t) == current_window(t) * window_ms
\* slip: the window end is taken from the clock when the response is built
window_end_of_return_instant(t) == (current_window(now) + 1) * window_ms
\* (current_window + 1) * (window_size * 1000)
window_end(t) == (current_window(t) + 1) * window_ms

(* ------------------------- store commands ------------------------------ *)
\* a key is gone once the store clock has passed its expiration instant
Expired(rec, t) == rec.exp # NoTtl /\ t > rec.exp
Purge(s, t) == [k \in {j \in DOMAIN s : ~Expired(s[j], t)} |-> s[k]]

\* GET key, read as a number ("0" when the key is missing)
Get(s, k) == IF k \in DOMAIN s THEN s[k].val ELSE 0
\* slip: the counter is started again at 1
Incr_restarts(s, k) == (k :> [val |-> 1, exp |-> NoTtl]) @@ s
\* INCR key: creates the key at 1 without TTL, keeps the TTL of an existing key
Incr(s, k) ==
    IF k \in DOMAIN s
    THEN [s EXCEPT ![k].val = @ + 1]
    ELSE (k :> [val |-> 1, exp |-> NoTtl]) @@ s
\* slip: the expiration is not counted from the instant of the command
PExpire_from_epoch(s, k, ms, t) ==
    IF k \in DOMAIN s THEN [s EXCEPT ![k].exp = ms] ELSE s
\* EXPIRE key seconds / PEXPIRE key ms, executed at store instant t
PExpire(s, k, ms, t) ==
    IF k \in DOMAIN s THEN [s EXCEPT ![k].exp = t + ms] ELSE s
\* SET key value: replaces the value and drops any TTL
Set(s, k, v) == (k :> [val |-> v, exp |-> NoTtl]) @@ s
\* TTL key in seconds: -2 missing, -1 no expiration, else rounded remaining time
Ttl(s, k, t) ==
    IF k \notin DOMAIN s THEN -2
    ELSE IF s[k].exp = NoTtl THEN -1
    ELSE (s[k].exp - t + 500) \div 1000


(* --------------------- sliding-window script --------------------------- *)
\* local time_in_current = now % window
time_in_current(t, window) == t % window
\* slip: the previous window's count is weighted by the time elapsed in the
\* current window instead of the time remaining
time_remaining_previous_is_elapsed(t, window) == time_in_current(t, window)
\* local time_remaining_previous = window - time_in_current
time_remaining_previous(t, window) == window - time_in_current(t, window)
\* slip: the previous window's count is taken in full
floor_weighted_previous_unweighted(previous_count, t, window) == previous_count
\* math.floor(weighted_previous),
\* weighted_previous = (previous_count * time_remaining_previous) / window
floor_weighted_previous(previous_count, t, window) ==
    (previous_count * time_remaining_previous(t, window)) \div window
\* slip: the increment of the call itself is left out of the sum
cumulative_count_without_increment(current_count, previous_count, t, window, increment_by) ==
    ((previous_count * (window - (t % window))) \div window) + current_count
\* local cumulative_count = math.floor(weighted_previous) + current_count + increment_by
cumulative_count(current_count, previous_count, t, window, increment_by) ==
    floor_weighted_previous(previous_count, t, window) + current_count + increment_by
\* slip: >= in place of >
script_denies_at_limit(cumulative, tokens) == cumulative >= tokens
\* the script's admission test is the negation of: cumulative_count > tokens
script_denies(cumulative, tokens) == cumulative > tokens
\* slip: without a previous count the denied branch answers one full window
script_retry_after_full_window(cumulative, tokens, previous_count, t, window, increment_by) ==
    LET needed == cumulative - tokens + increment_by
    IN  IF previous_count > 0
        THEN Min(CeilDiv(needed * window, previous_count),
                 time_remaining_previous(t, window))
        ELSE window
\* retry_after of the denied branch
script_retry_after(cumulative, tokens, previous_count, t, window, increment_by) ==
    LET needed == cumulative - tokens + increment_by
    IN  IF previous_count > 0
        THEN Min(CeilDiv(needed * window, previous_count),
                 time_remaining_previous(t, window))
        ELSE window - time_in_current(t, window)
\* slip: the increment is written over the stored count
script_new_count_overwrites(current_count, increment_by) == increment_by
\* value the admitted branch writes: current_count = current_count + increment_by
script_new_count(current_count, increment_by) == current_count + increment_by
\* slip: the expiration covers one window only
script_pexpire_ms_one_window(window) == window
\* expiration the admitted branch sets: PEXPIRE current_key (window * 2 + 1000)
script_pexpire_ms(window) == window * 2 + 1000

\* slip: the denied branch counts the call as well
SlidingWindowScript_counts_denied(s, current_key, previous_key, tokens, t, window, increment_by, at) ==
    LET current_count == Get(s, current_key)
        previous_count == Get(s, previous_key)
        cumulative == cumulative_count(current_count, previous_count, t, window,
                                       increment_by)
        written == script_new_count(current_count, increment_by)
    IN  [reply |-> IF script_denies(cumulative, tokens)
                   THEN <<-1, script_retry_after(cumulative, tokens, previous_count,
                                                  t, window, increment_by)>>
                   ELSE <<tokens - (floor_weighted_previous(previous_count, t, window)
                                    + written), 0>>,
         store |-> PExpire(Set(s, current_key, written), current_key,
                           script_pexpire_ms(window), at)]
\* One atomic run of SLIDING_WINDOW_SCRIPT on keyspace s at store instant at:
\* reply is the returned pair, store the keyspace it leaves.
SlidingWindowScript(s, current_key, previous_key, tokens, t, window, increment_by, at) ==
    LET current_count == Get(s, current_key)
        previous_count == Get(s, previous_key)
        cumulative == cumulative_count(current_count, previous_count, t, window,
                                       increment_by)
        written == script_new_count(current_count, increment_by)
    IN  IF script_denies(cumulative, tokens)
        THEN [reply |-> <<-1, script_retry_after(cumulative, tokens, previous_count,
                                                  t, window, increment_by)>>,
              store |-> s]
        ELSE [reply |-> <<tokens - (floor_weighted_previous(previous_count, t, window)
                                    + written), 0>>,
              store |-> PExpire(Set(s, current_key, written), current_key,
                                script_pexpire_ms(window), at)]

(* ------------------------- limiter facade ------------------------------ *)
\* slip: < in place of <= in the limit check
validateOptions_accepts_zero_limit(o) ==
    /\ ~(o.limit < 0)
    /\ ~(o.window <= 0)
    /\ ~(o.type # "fixed" /\ o.type # "sliding")
\* validateOptions: the constructor accepts exactly these configurations
validateOptions(o) ==
    /\ ~(o.limit <= 0)
    /\ ~(o.window <= 0)
    /\ ~(o.type # "fixed" /\ o.type # "sliding")

\* slip: the counter key does not carry the window index
window_key_without_window(identifier, t) == getKey(identifier, "0")
\* fixed window: key of the window containing instant t
window_key(identifier, t) == getKey(identifier, ToString(current_window(t)))
\* slip: the call is counted on the key of the window after its own
current_key_of_next_window(identifier, t) ==
    getKey(identifier, ToString(current_window(t) + 1))
\* sliding window: keys of the current and of the previous window
current_key(identifier, t) == getKey(identifier, ToString(current_window(t)))
previous_key(identifier, t) == getKey(identifier, ToString(current_window(t) - 1))

\* slips: one call too many admitted, one call too few admitted
fixed_denied_one_late(count) == count > options.limit + 1
fixed_denied_at_limit(count) == count >= options.limit
\* fixed window: the call is denied when count > this.options.limit
fixed_denied(count) == count > options.limit
\* slip: the TTL reply is not clamped at 0
fixed_retry_after_unclamped(ttl) == ttl * 1000
\* fixed window: retry_after of a denied call, Math.max(ttl * 1000, 0)
fixed_retry_after(ttl) == Max(ttl * 1000, 0)
\* slip: remaining counts the slots before the call instead of after it
fixedResponse_remaining_before_call(count, ttl, t) ==
    IF fixed_denied(count)
    THEN [success |-> FALSE, limit |-> options.limit, remaining |-> 0,
          retry_after |-> fixed_retry_after(ttl), reset |-> window_end(t)]
    ELSE [success |-> TRUE, limit |-> options.limit,
          remaining |-> options.limit - count + 1,
          retry_after |-> 0, reset |-> window_end(t)]
\* the response fixedWindowLimit returns for a call entered at t
fixedResponse(count, ttl, t) ==
    IF fixed_denied(count)
    THEN [success |-> FALSE, limit |-> options.limit, remaining |-> 0,
          retry_after |-> fixed_retry_after(ttl), reset |-> window_end(t)]
    ELSE [success |-> TRUE, limit |-> options.limit,
          remaining |-> options.limit - count,
          retry_after |-> 0, reset |-> window_end(t)]
\* slip: reset promises a blank slate after one window instead of two
sliding_reset_after_one_window(t_return) == t_return + options.window * 1000
\* sliding window: reset = this.time_provider() + this.options.window * 2000
sliding_reset(t_return) == t_return + options.window * 2000
\* slip: the script's -1 is passed on as remaining
slidingResponse_remaining_unclamped(reply, t_return) ==
    [success |-> reply[1] >= 0, limit |-> options.limit,
     remaining |-> reply[1], retry_after |-> reply[2],
     reset |-> sliding_reset(t_return)]
\* the response slidingWindowLimit builds from the script's reply at t_return
slidingResponse(reply, t_return) ==
    [success |-> reply[1] >= 0, limit |-> options.limit,
     remaining |-> Max(0, reply[1]), retry_after |-> reply[2],
     reset |-> sliding_reset(t_return)]

(* ------------------------------ state ---------------------------------- *)
\* no store command of the call has been rejected, nothing is thrown
NoError == [type |-> "none"]
IdleLoc == [identifier |-> "", now |-> 0, count |-> 0, ttl |-> 0,
            reply |-> <<0, 0>>, exec_at |-> 0,
            rejection |-> NoError, error |-> NoError]

Init ==
    /\ options \in {o \in [type : {"fixed", "sliding"}, limit : 1..MaxLimit,
                          window : 1..MaxWindow, prefix : {""}] :
                        validateOptions(o)}
    /\ built = "constructed"
    /\ script_sha = NoSha
    /\ script_cache = {}
    /\ now = 0
    /\ store = <<>>
    /\ pc = [p \in Callers |-> "idle"]
    /\ loc = [p \in Callers |-> IdleLoc]
    /\ calls = 0
    /\ overlapped = FALSE
    /\ log = <<>>

\* the clock advances; the store drops the keys whose expiration has passed
Tick ==
    /\ now + TickMs <= MaxTicks * TickMs
    /\ now' = now + TickMs
    /\ store' = Purge(store, now')
    /\ UNCHANGED <<built, script_sha, script_cache, options, pc, loc, calls, overlapped, log>>

\* limit(identifier) is called: the engine reads the time provider once
\* (identifier is one of identifiers; at most max_calls calls are started in
\* one behaviour)
EnterWith(p, identifiers, max_calls) ==
    /\ built = "constructed"
    /\ pc[p] = "idle"
    /\ calls < max_calls
    /\ \E identifier \in identifiers :
         loc' = [loc EXCEPT ![p] = [IdleLoc EXCEPT !.identifier = identifier,
                                                   !.now = now]]
    /\ pc' = [pc EXCEPT ![p] = IF options.type = "fixed" THEN "incr" ELSE "script"]
    /\ calls' = calls + 1
    /\ overlapped' = (overlapped \/ \E q \in Callers : pc[q] # "idle")
    /\ UNCHANGED <<built, script_sha, script_cache, options, now, store, log>>

Enter(p) == EnterWith(p, Identifiers, MaxCalls)

\* const count = await this.valkey.incr(window_key)
FixedIncr(p) ==
    /\ pc[p] = "incr"
    /\ LET k == window_key(loc[p].identifier, loc[p].now)
           count == Get(store, k) + 1
       IN  /\ store' = Incr(store, k)
           /\ loc' = [loc EXCEPT ![p].count = count, ![p].exec_at = now]
           /\ pc' = [pc EXCEPT ![p] = IF count = 1 THEN "expire"
                                      ELSE IF fixed_denied(count) THEN "ttl"
                                      ELSE "return"]
    /\ UNCHANGED <<built, script_sha, script_cache, options, now, calls, overlapped, log>>

\* if (count === 1) await this.valkey.expire(window_key, window_size)
FixedExpire(p) ==
    /\ pc[p] = "expire"
    /\ store' = PExpire(store, window_key(loc[p].identifier, loc[p].now),
                        options.window * 1000, now)
    /\ pc' = [pc EXCEPT ![p] = IF fixed_denied(loc[p].count) THEN "ttl" ELSE "return"]
    /\ UNCHANGED <<built, script_sha, script_cache, options, now, loc, calls, overlapped, log>>

\* const ttl = await this.valkey.ttl(window_key)
FixedTtl(p) ==
    /\ pc[p] = "ttl"
    /\ loc' = [loc EXCEPT ![p].ttl =
                   Ttl(store, window_key(loc[p].identifier, loc[p].now), now)]
    /\ pc' = [pc EXCEPT ![p] = "return"]
    /\ UNCHANGED <<built, script_sha, script_cache, options, now, store, calls, overlapped, log>>

\* the response the call of caller p returns when it returns in this state
ResponseOf(p) ==
    IF options.type = "fixed"
    THEN fixedResponse(loc[p].count, loc[p].ttl, loc[p].now)
    ELSE slidingResponse(loc[p].reply, now)

\* what the history keeps of a returned call
LogEntry(p) ==
    [identifier |-> loc[p].identifier, entry |-> loc[p].now, ret_at |-> now,
     success |-> ResponseOf(p).success, remaining |-> ResponseOf(p).remaining,
     retry_after |-> ResponseOf(p).retry_after, reset |-> ResponseOf(p).reset]

\* fixedWindowLimit returns its response
FixedReturn(p) ==
    /\ pc[p] = "return"
    /\ log' = Append(log, LogEntry(p))
    /\ pc' = [pc EXCEPT ![p] = "idle"]
    /\ loc' = [loc EXCEPT ![p] = IdleLoc]
    /\ UNCHANGED <<built, script_sha, script_cache, options, now, store, calls, overlapped>>

\* await this.valkey.slidingWindowRateLimit([current_key, previous_key], ...)
SlidingScript(p) ==
    /\ pc[p] = "script"
    /\ LET r == SlidingWindowScript(store,
                                    current_key(loc[p].identifier, loc[p].now),
                                    previous_key(loc[p].identifier, loc[p].now),
                                    options.limit, loc[p].now, window_ms, 1, now)
       IN  /\ store' = r.store
           /\ loc' = [loc EXCEPT ![p].reply = r.reply, ![p].exec_at = now]
    /\ pc' = [pc EXCEPT ![p] = "sreturn"]
    /\ UNCHANGED <<built, script_sha, script_cache, options, now, calls, overlapped, log>>

\* slidingWindowLimit reads the time provider again and returns its response
SlidingReturn(p) ==
    /\ pc[p] = "sreturn"
    /\ log' = Append(log, LogEntry(p))
    /\ pc' = [pc EXCEPT ![p] = "idle"]
    /\ loc' = [loc EXCEPT ![p] = IdleLoc]
    /\ UNCHANGED <<built, script_sha, script_cache, options, now, store, calls, overlapped>>

Next ==
    \/ Tick
    \/ \E p \in Callers : Enter(p)
    \/ \E p \in Callers : FixedIncr(p)
    \/ \E p \in Callers : FixedExpire(p)
    \/ \E p \in Callers : FixedTtl(p)
    \/ \E p \in Callers : FixedReturn(p)
    \/ \E p \in Callers : SlidingScript(p)
    \/ \E p \in Callers : SlidingReturn(p)

Spec == Init /\ [][Next]_vars

TypeOK ==
    /\ now \in 0..(MaxTicks * TickMs)
    /\ calls \in 0..MaxCalls
    /\ Len(log) <= calls
    /\ \A k \in DOMAIN store : store[k].val >= 1

(* ------------------------- claim vocabulary ---------------------------- *)
\* callers whose call has its response ready and is about to return
Returning(p) == pc[p] \in {"return", "sreturn"}
\* the calls in flight; they are pairwise concurrent
Batch == {p \in Callers : pc[p] # "idle"}
\* every call in flight has finished its store commands
BatchDone == Batch # {} /\ \A p \in Batch : Returning(p)
BatchSuccesses == Cardinality({p \in Batch : ResponseOf(p).success})
\* no returned call was entered in window w
NoLoggedEntryIn(w) == \A i \in DOMAIN log : current_window(log[i].entry) # w
\* no returned call entered in window w was admitted
NoLoggedAdmitIn(w) ==
    \A i \in DOMAIN log : current_window(log[i].entry) = w => ~log[i].success
\* the returned calls that were entered and returned inside window w, in order
InsideWindow(w) ==
    SelectSeq(log, LAMBDA e : current_window(e.entry) = w /\ current_window(e.ret_at) = w)
WindowsSeen == {current_window(log[i].entry) : i \in DOMAIN log}
\* the j-th of N sequential calls: admitted with remaining limit - j up to the
\* limit, denied with remaining 0 after it
CountsDown(S) ==
    \A j \in 1..Len(S) :
        /\ S[j].success = (j <= options.limit)
        /\ S[j].remaining = IF j <= options.limit THEN options.limit - j ELSE 0

(* ------------------------------ C1 ------------------------------------- *)
\* C1 as stated: fixed window, M concurrent calls entered in the same window on an
\* absent counter key: exactly min(M, limit) of them succeed.
C1_AsStated ==
    options.type = "fixed" =>
        \A w \in {current_window(loc[p].now) : p \in Batch} :
            ( /\ BatchDone
              /\ \A p \in Batch : current_window(loc[p].now) = w
              /\ NoLoggedEntryIn(w) )
            => BatchSuccesses = Min(Cardinality(Batch), options.limit)

\* C1 (amended): fixed window, M concurrent calls entered in the same window on an
\* absent counter key, whose INCRs the store all executes before that window
\* ends (so the counter key cannot expire between them): exactly min(M, limit)
\* of them succeed.
C1_ConcurrentFixed ==
    options.type = "fixed" =>
        \A w \in {current_window(loc[p].now) : p \in Batch} :
            ( /\ BatchDone
              /\ \A p \in Batch : current_window(loc[p].now) = w
              /\ NoLoggedEntryIn(w)
              /\ \A p \in Batch : loc[p].exec_at < window_end(loc[p].now) )
            => BatchSuccesses = Min(Cardinality(Batch), options.limit)

\* more concurrent calls than the limit have all been decided inside their window
C1_Witness ==
    /\ options.type = "fixed"
    /\ BatchDone
    /\ Cardinality(Batch) > options.limit
    /\ \A p, q \in Batch : current_window(loc[p].now) = current_window(loc[q].now)
    /\ \A p \in Batch : NoLoggedEntryIn(current_window(loc[p].now))
    /\ \A p \in Batch : loc[p].exec_at < window_end(loc[p].now)
    /\ BatchSuccesses = options.limit

(* ------------------------------ C2 ------------------------------------- *)
\* C2 as stated: sliding window, M concurrent calls issued at the same instant with
\* empty current and previous counters: exactly min(M, limit) of them succeed.
C2_AsStated ==
    options.type = "sliding" =>
        \A t \in {loc[p].now : p \in Batch} :
            ( /\ BatchDone
              /\ \A p \in Batch : loc[p].now = t
              /\ NoLoggedAdmitIn(current_window(t))
              /\ NoLoggedAdmitIn(current_window(t) - 1) )
            => BatchSuccesses = Min(Cardinality(Batch), options.limit)

\* C2 (amended): sliding window, M concurrent calls issued at the same instant with
\* empty current and previous counters, each script run by the store within
\* 2*window_ms + 1000 ms of that instant (before the current counter key can
\* expire): exactly min(M, limit) of them succeed.
C2_ConcurrentSliding ==
    options.type = "sliding" =>
        \A t \in {loc[p].now : p \in Batch} :
            ( /\ BatchDone
              /\ \A p \in Batch : loc[p].now = t
              /\ NoLoggedAdmitIn(current_window(t))
              /\ NoLoggedAdmitIn(current_window(t) - 1)
              /\ \A p \in Batch : loc[p].exec_at <= t + 2 * window_ms + 1000 )
            => BatchSuccesses = Min(Cardinality(Batch), options.limit)

\* more concurrent calls than the limit, issued at one instant, have been decided
C2_Witness ==
    /\ options.type = "sliding"
    /\ BatchDone
    /\ Cardinality(Batch) > options.limit
    /\ \A p, q \in Batch : loc[p].now = loc[q].now
    /\ \A p \in Batch : /\ NoLoggedAdmitIn(current_window(loc[p].now))
                        /\ NoLoggedAdmitIn(current_window(loc[p].now) - 1)
                        /\ loc[p].exec_at <= loc[p].now + 2 * window_ms + 1000
    /\ BatchSuccesses = options.limit

(* ------------------------------ C3 ------------------------------------- *)
\* C3: sliding window, any interleaving: every script run that admits its call
\* (writes its increment to the store, or replies remaining >= 0) finds
\* floor(previous_count * time_remaining_previous / window_ms) + current_count + 1
\* <= limit, for the counts stored at that very instant.
C3_AdmissionCheck ==
    [][\A p \in Callers :
          (SlidingScript(p) /\ (store' # store \/ loc'[p].reply[1] >= 0)) =>
              LET t == loc[p].now
                  cur == Get(store, current_key(loc[p].identifier, t))
                  prev == Get(store, previous_key(loc[p].identifier, t))
              IN  ((prev * (window_ms - (t % window_ms))) \div window_ms) + cur + 1
                      <= options.limit]_vars

\* a call was admitted while the previous window's counter weighed in partially
C3_Witness ==
    \E p \in Callers :
        /\ pc[p] = "sreturn"
        /\ loc[p].reply[1] >= 0
        /\ loc[p].now % window_ms # 0
        /\ Get(store, previous_key(loc[p].identifier, loc[p].now)) >= 2
        /\ Get(store, current_key(loc[p].identifier, loc[p].now)) >= 1
        /\ loc[p].exec_at = loc[p].now

(* ------------------------------ C4 ------------------------------------- *)
\* C4: sliding window: script runs of concurrent calls take effect one after the
\* other on the stored counter: an admitted run leaves the current counter at the
\* value stored just before it plus one (no lost update) and touches no other key,
\* a denied run leaves the store as it was.
C4_NoLostUpdate ==
    [][\A p \in Callers :
          SlidingScript(p) =>
              LET k == current_key(loc[p].identifier, loc[p].now)
              IN  IF loc'[p].reply[1] >= 0
                  THEN /\ k \in DOMAIN store'
                       /\ store'[k].val = Get(store, k) + 1
                       /\ \A j \in DOMAIN store : j # k =>
                              j \in DOMAIN store' /\ store'[j] = store[j]
                       /\ DOMAIN store' = DOMAIN store \cup {k}
                  ELSE store' = store]_vars

\* two concurrent calls were both admitted and the counter holds both increments
C4_Witness ==
    /\ options.type = "sliding"
    /\ \A p \in Callers : pc[p] = "sreturn" /\ loc[p].reply[1] >= 0
    /\ \A p, q \in Callers : loc[p].now = loc[q].now
    /\ \E p \in Callers :
          Get(store, current_key(loc[p].identifier, loc[p].now)) = NumCallers

(* ------------------------------ C5 ------------------------------------- *)
\* C5 as stated: for either algorithm, in any rolling interval of `window` seconds
\* (any start instant) at most `limit` calls return success.
C5_AsStated ==
    \A i \in DOMAIN log :
        Cardinality({j \in DOMAIN log :
                        /\ log[j].success
                        /\ log[j].entry >= log[i].entry
                        /\ log[j].ret_at < log[i].entry + window_ms})
            <= options.limit

\* C5 (amended): for either algorithm, in any window-aligned interval
\* [k*window_ms, (k+1)*window_ms) at most `limit` of the calls made inside it
\* return success.
C5_AlignedWindowCeiling ==
    \A w \in WindowsSeen :
        Cardinality({j \in DOMAIN log :
                        /\ log[j].success
                        /\ current_window(log[j].entry) = w
                        /\ current_window(log[j].ret_at) = w})
            <= options.limit

\* a window in which calls were admitted up to the limit and one more was denied
C5_Witness ==
    \E w \in WindowsSeen :
        /\ Cardinality({j \in DOMAIN log :
                           /\ log[j].success
                           /\ current_window(log[j].entry) = w
                           /\ current_window(log[j].ret_at) = w}) = options.limit
        /\ \E j \in DOMAIN log :
              /\ ~log[j].success
              /\ current_window(log[j].entry) = w
              /\ current_window(log[j].ret_at) = w

(* ------------------------------ C6 ------------------------------------- *)
\* C6: fixed window: N sequential calls made inside one window on a fresh
\* identifier: the first `limit` succeed with remaining limit-1, ..., 0 in that
\* order, every later one is denied with remaining 0.
C6_SequentialFixed ==
    (options.type = "fixed" /\ ~overlapped) =>
        \A w \in WindowsSeen : CountsDown(InsideWindow(w))

\* sequential calls in one window ran past the limit
C6_Witness ==
    /\ options.type = "fixed"
    /\ ~overlapped
    /\ \E w \in WindowsSeen :
          /\ Len(InsideWindow(w)) > options.limit
          /\ options.limit >= 2

(* ------------------------------ C7 ------------------------------------- *)
\* C7: sliding window: N sequential calls made inside one window whose previous
\* window is empty: the first `limit` succeed with remaining limit-1, ..., 0 in
\* that order, every later one is denied with remaining 0, the script replying -1.
C7_SequentialSliding ==
    (options.type = "sliding" /\ ~overlapped) =>
        /\ \A w \in WindowsSeen :
               NoLoggedAdmitIn(w - 1) => CountsDown(InsideWindow(w))
        /\ \A p \in Callers :
               (pc[p] = "sreturn" /\ ~ResponseOf(p).success) => loc[p].reply[1] = -1

\* sequential calls in one window with an empty previous window ran past the limit
C7_Witness ==
    /\ options.type = "sliding"
    /\ ~overlapped
    /\ \E w \in WindowsSeen :
          /\ NoLoggedAdmitIn(w - 1)
          /\ Len(InsideWindow(w)) > options.limit
          /\ options.limit >= 2

(* ------------------------------ C8 ------------------------------------- *)
\* C8 as stated: every response with success = false, from either algorithm and in
\* every reachable store state, has remaining = 0 and retry_after > 0.
C8_AsStated ==
    \A p \in Callers :
        (Returning(p) /\ ~ResponseOf(p).success) =>
            ResponseOf(p).remaining = 0 /\ ResponseOf(p).retry_after > 0

\* C8 (amended): every response with success = false has remaining = 0 and
\* retry_after >= 0; retry_after > 0 (and <= window_ms) for every sliding-window
\* denial, and for a fixed-window denial exactly when the store's TTL reply is at
\* least one second: it is 0 when TTL replies -2 (key expired), -1 (EXPIRE not
\* applied yet) or 0 (under half a second left).
C8_DeniedResponse ==
    \A p \in Callers :
        (Returning(p) /\ ~ResponseOf(p).success) =>
            /\ ResponseOf(p).remaining = 0
            /\ ResponseOf(p).retry_after >= 0
            /\ options.type = "sliding" =>
                   ResponseOf(p).retry_after \in 1..window_ms
            /\ options.type = "fixed" =>
                   /\ loc[p].ttl \in {-2, -1} \cup (0..options.window)
                   /\ (ResponseOf(p).retry_after = 0) = (loc[p].ttl <= 0)
                   /\ ResponseOf(p).retry_after <= window_ms

\* a fixed-window denial whose TTL command met a key without expiration
C8_Witness ==
    \E p \in Callers :
        /\ options.type = "fixed"
        /\ pc[p] = "return"
        /\ ~ResponseOf(p).success
        /\ loc[p].ttl = -1
        /\ ResponseOf(p).retry_after = 0

(* ------------------------------ C9 ------------------------------------- *)
\* C9: every response with success = true, from either algorithm, has
\* retry_after = 0, limit = the configured limit and 0 <= remaining <= limit - 1.
C9_AdmittedResponse ==
    \A p \in Callers :
        (Returning(p) /\ ResponseOf(p).success) =>
            /\ ResponseOf(p).retry_after = 0
            /\ ResponseOf(p).limit = options.limit
            /\ ResponseOf(p).remaining \in 0..(options.limit - 1)

\* a sliding-window call admitted on the last free slot, part of it taken by the
\* previous window
C9_Witness ==
    \E p \in Callers :
        /\ pc[p] = "sreturn"
        /\ ResponseOf(p).success
        /\ ResponseOf(p).remaining = 0
        /\ Get(store, previous_key(loc[p].identifier, loc[p].now)) > 0
        /\ loc[p].exec_at = loc[p].now

(* ------------------------------ C10 ------------------------------------ *)
\* C10 as stated: for every call of either algorithm the returned reset is
\* strictly greater than the time provider's instant when the call returns.
C10_AsStated ==
    \A p \in Callers : Returning(p) => ResponseOf(p).reset > now

\* C10 (amended): for every call of either algorithm the returned reset is
\* strictly greater than the instant the call read from the time provider at
\* entry; a sliding-window reset is also strictly greater than the instant at
\* return, a fixed-window reset (the end of the entry instant's window) is not
\* when the call returns after that window has ended.
C10_ResetAfterEntry ==
    \A p \in Callers :
        Returning(p) =>
            /\ ResponseOf(p).reset > loc[p].now
            /\ options.type = "sliding" => ResponseOf(p).reset > now
            /\ options.type = "fixed" =>
                   (ResponseOf(p).reset > now) =
                       (current_window(now) = current_window(loc[p].now))

\* a fixed-window call returns after the window it was entered in has ended
C10_Witness ==
    \E p \in Callers :
        /\ options.type = "fixed"
        /\ pc[p] = "return"
        /\ ResponseOf(p).reset <= now
        /\ ResponseOf(p).reset > loc[p].now

(* ------------------------------ C11 ------------------------------------ *)
\* C11: fixed window: every response, admitted or denied, carries
\* reset = (floor(now / (window*1000)) + 1) * window * 1000 for the instant
\* `now` the call read at entry; hence two calls whose entry instants lie in
\* the same window return the same reset.
C11_FixedReset ==
    options.type = "fixed" =>
        /\ \A p \in Callers :
               Returning(p) =>
                   ResponseOf(p).reset =
                       ((loc[p].now \div (options.window * 1000)) + 1)
                           * options.window * 1000
        /\ \A p, q \in Callers :
               ( /\ Returning(p) /\ Returning(q)
                 /\ loc[p].now \div (options.window * 1000)
                        = loc[q].now \div (options.window * 1000) )
               => ResponseOf(p).reset = ResponseOf(q).reset

\* two calls entered at different instants of one window, one admitted and one
\* denied, return after that window has ended
C11_Witness ==
    \E p, q \in Callers :
        /\ options.type = "fixed"
        /\ pc[p] = "return" /\ pc[q] = "return"
        /\ loc[p].now # loc[q].now
        /\ current_window(loc[p].now) = current_window(loc[q].now)
        /\ ResponseOf(p).success /\ ~ResponseOf(q).success
        /\ current_window(now) > current_window(loc[p].now)

(* ------------------------------ C12 ------------------------------------ *)
\* the call of caller p has had its INCR executed
Incremented(p) == pc[p] \in {"expire", "ttl", "return"}
\* of all calls so far whose entry instant lies in p's window, p's is the
\* earliest
FirstEnteredOfWindow(p) ==
    /\ \A i \in DOMAIN log :
           current_window(log[i].entry) = current_window(loc[p].now)
               => log[i].entry > loc[p].now
    /\ \A q \in Batch \ {p} :
           current_window(loc[q].now) = current_window(loc[p].now)
               => loc[q].now > loc[p].now
\* no other call whose entry instant lies in p's window has had its INCR
\* executed yet
FirstIncrementedOfWindow(p) ==
    /\ NoLoggedEntryIn(current_window(loc[p].now))
    /\ \A q \in Batch \ {p} :
           current_window(loc[q].now) = current_window(loc[p].now)
               => pc[q] = "incr"

\* C12 as stated: fixed window: whatever the calls made in an earlier window,
\* the first call whose entry instant lies in a later window returns
\* success=true with remaining = limit - 1.
C12_AsStated ==
    options.type = "fixed" =>
        \A p \in Callers :
            ( /\ pc[p] = "return"
              /\ current_window(loc[p].now) >= 1
              /\ FirstEnteredOfWindow(p) )
            => /\ ResponseOf(p).success
               /\ ResponseOf(p).remaining = options.limit - 1

\* C12 (amended): fixed window: whatever the calls (admitted or denied) made
\* in an earlier window, the call of a later window whose INCR the store
\* executes before the INCR of every other call of that later window is
\* admitted with remaining = limit - 1.
C12_FreshWindow ==
    options.type = "fixed" =>
        \A p \in Callers :
            ( /\ Incremented(p)
              /\ current_window(loc[p].now) >= 1
              /\ FirstIncrementedOfWindow(p) )
            => /\ fixedResponse(loc[p].count, loc[p].ttl, loc[p].now).success
               /\ fixedResponse(loc[p].count, loc[p].ttl, loc[p].now).remaining
                      = options.limit - 1

\* after an admitted and a denied call of window 0, whose counter key is
\* still alive, a call entered in the next window is about to return
C12_Witness ==
    \E p \in Callers :
        /\ options.type = "fixed"
        /\ pc[p] = "return"
        /\ current_window(loc[p].now) = 1
        /\ FirstIncrementedOfWindow(p)
        /\ Len(log) = 2
        /\ \A i \in DOMAIN log : current_window(log[i].entry) = 0
        /\ \E i \in DOMAIN log : ~log[i].success
        /\ window_key("a", 0) \in DOMAIN store
        /\ ResponseOf(p).remaining = options.limit - 1

(* ------------------------------ C13 ------------------------------------ *)
\* The configuration of retry.test.ts (limit 1, window 2 s), one caller making
\* its calls one after the other, on a clock fine enough for the store's TTL
\* reply in whole seconds to differ from the key's remaining life.
RetryLimit == 1
RetryWindow == 2
RetryTickMs == 300
RetryMaxTicks == 7

InitRetry ==
    /\ options \in {o \in [type : {"fixed", "sliding"}, limit : 1..RetryLimit,
                          window : {RetryWindow}, prefix : {""}] :
                        validateOptions(o)}
    /\ built = "constructed"
    /\ script_sha = NoSha
    /\ script_cache = {}
    /\ now = 0
    /\ store = <<>>
    /\ pc = [p \in Callers |-> "idle"]
    /\ loc = [p \in Callers |-> IdleLoc]
    /\ calls = 0
    /\ overlapped = FALSE
    /\ log = <<>>

TickRetry ==
    /\ now + RetryTickMs <= RetryMaxTicks * RetryTickMs
    /\ now' = now + RetryTickMs
    /\ store' = Purge(store, now')
    /\ UNCHANGED <<built, script_sha, script_cache, options, pc, loc, calls, overlapped, log>>

NextRetry ==
    \/ TickRetry
    \/ Enter(1)
    \/ FixedIncr(1)
    \/ FixedExpire(1)
    \/ FixedTtl(1)
    \/ FixedReturn(1)
    \/ SlidingScript(1)
    \/ SlidingReturn(1)

SpecRetry == InitRetry /\ [][NextRetry]_vars

\* the call of caller p is made after the latest returned call was denied and
\* the retry_after of that denial has passed since it returned, all calls so
\* far having been made one after the other
RetriesAfterDenial(p) ==
    /\ Returning(p)
    /\ Batch = {p}
    /\ ~overlapped
    /\ log # <<>>
    /\ ~log[Len(log)].success
    /\ loc[p].now > log[Len(log)].ret_at + log[Len(log)].retry_after

\* C13: for both algorithms, a call denied with retry_after = R is followed,
\* when the next call is made after R has passed and nothing else was called
\* in between, by an admitted call.
C13_AsStated ==
    \A p \in Callers : RetriesAfterDenial(p) => ResponseOf(p).success

\* the sliding-window half of C13 taken alone
C13_SlidingRetry ==
    options.type = "sliding" =>
        \A p \in Callers : RetriesAfterDenial(p) => ResponseOf(p).success

\* the retry is denied again: the store's TTL reply was rounded down
C13_RetryDenied ==
    \E p \in Callers :
        /\ options.type = "fixed"
        /\ RetriesAfterDenial(p)
        /\ log[Len(log)].retry_after > 0
        /\ ~ResponseOf(p).success

(* ------------------------------ C14 ------------------------------------ *)
\* the call of caller p is made at or after the reset carried by the
\* response log[i], and no other call was made since the call of log[i]
MadeAtResetOf(p, i) ==
    /\ Returning(p)
    /\ loc[p].now >= log[i].reset
    /\ \A j \in DOMAIN log \ {i} : log[j].entry <= log[i].entry
    /\ \A q \in Batch \ {p} : loc[q].now <= log[i].entry

\* C14: for both algorithms, a call made at any instant >= the reset carried
\* by a response (admitted or denied), with no call in between, returns
\* success=true with remaining = limit - 1.
C14_BlankSlateAtReset ==
    \A p \in Callers :
        \A i \in DOMAIN log :
            MadeAtResetOf(p, i) =>
                /\ ResponseOf(p).success
                /\ ResponseOf(p).remaining = options.limit - 1

\* a sliding-window call made exactly at the reset of a denied response
C14_Witness ==
    \E p \in Callers :
        \E i \in DOMAIN log :
            /\ options.type = "sliding"
            /\ MadeAtResetOf(p, i)
            /\ ~log[i].success
            /\ loc[p].now = log[i].reset
            /\ ResponseOf(p).remaining = options.limit - 1

\* a fixed-window call made at the reset of a denied response while a call
\* of the earlier window is still in flight
C14_WitnessFixed ==
    \E p \in Callers :
        \E i \in DOMAIN log :
            /\ options.type = "fixed"
            /\ MadeAtResetOf(p, i)
            /\ ~log[i].success
            /\ Batch # {p}

(* --------------------------- C15, C16 ---------------------------------- *)
\* The configuration of the weighted-rate tests (sliding, limit 10, window
\* 2 s): one caller makes its calls one after the other, each call completing
\* at the instant it is made, on a clock that advances in quarters of the
\* window from any start instant.
WeightedLimit == 10
WeightedWindow == 2
WeightedMaxCalls == 11
WeightedTickMs == 500
WeightedMaxTicks == 7

InitWeighted ==
    /\ options = [type |-> "sliding", limit |-> WeightedLimit,
                  window |-> WeightedWindow, prefix |-> ""]
    /\ validateOptions(options)
    /\ built = "constructed"
    /\ script_sha = NoSha
    /\ script_cache = {}
    /\ now = 0
    /\ store = <<>>
    /\ pc = [p \in Callers |-> "idle"]
    /\ loc = [p \in Callers |-> IdleLoc]
    /\ calls = 0
    /\ overlapped = FALSE
    /\ log = <<>>

\* the clock advances between two calls
TickWeighted ==
    /\ pc[1] = "idle"
    /\ now + WeightedTickMs <= WeightedMaxTicks * WeightedTickMs
    /\ now' = now + WeightedTickMs
    /\ store' = Purge(store, now')
    /\ UNCHANGED <<built, script_sha, script_cache, options, pc, loc, calls, overlapped, log>>

NextWeighted ==
    \/ TickWeighted
    \/ EnterWith(1, Identifiers, WeightedMaxCalls)
    \/ SlidingScript(1)
    \/ SlidingReturn(1)

SpecWeighted == InitWeighted /\ [][NextWeighted]_vars

\* so far K >= 1 calls were made, all at one instant T and all admitted, and
\* the call of caller p is made at T + alpha * window, 0 <= alpha <= 1
AfterAdmittedAtOneInstant(p) ==
    /\ pc[p] = "sreturn"
    /\ log # <<>>
    /\ Len(log) <= options.limit
    /\ \A i \in DOMAIN log : log[i].entry = log[1].entry /\ log[i].success
    /\ loc[p].now - log[1].entry <= options.window * 1000

EleventhCall(p) ==
    /\ pc[p] = "sreturn"
    /\ Len(log) = 10
    /\ \A i \in 1..8 : log[i].entry = log[1].entry /\ log[i].success
    /\ \A i \in 9..10 : log[i].entry = log[1].entry + 1000 /\ log[i].success
    /\ loc[p].now = log[1].entry + 1000

C16_WitnessNextWindow ==
    \E p \in Callers :
        /\ EleventhCall(p)
        /\ log[1].entry % 2000 = 1500
        /\ ResponseOf(p).success

(* --------------------------- C17, C18 ---------------------------------- *)
\* Limiters with prefixes and identifiers that contain the key separator:
\* two callers of one limiter, whose calls may be for different identifiers,
\* and the keys a limiter with another prefix would use on the same store.
IsolationMaxCalls == 2
IsolationPrefixes == {"", "ratelimit", "x", "x:y"}
IsolationIdentifiers == {"a", "a:1", "y:a"}

InitIsolation ==
    /\ options \in {o \in [type : {"fixed", "sliding"}, limit : {1},
                          window : {1}, prefix : IsolationPrefixes] :
                        validateOptions(o)}
    /\ built = "constructed"
    /\ script_sha = NoSha
    /\ script_cache = {}
    /\ now = 0
    /\ store = <<>>
    /\ pc = [p \in Callers |-> "idle"]
    /\ loc = [p \in Callers |-> IdleLoc]
    /\ calls = 0
    /\ overlapped = FALSE
    /\ log = <<>>

NextIsolation ==
    \/ Tick
    \/ \E p \in Callers : EnterWith(p, IsolationIdentifiers, IsolationMaxCalls)
    \/ \E p \in Callers : FixedIncr(p)
    \/ \E p \in Callers : FixedExpire(p)
    \/ \E p \in Callers : FixedTtl(p)
    \/ \E p \in Callers : FixedReturn(p)
    \/ \E p \in Callers : SlidingScript(p)
    \/ \E p \in Callers : SlidingReturn(p)

SpecIsolation == InitIsolation /\ [][NextIsolation]_vars

\* the window indices a key suffix can carry in this model (windows last at
\* least one second)
WindowIndices == (0 - 1)..((MaxTicks * TickMs) \div 1000)
\* the counter keys of an identifier under a configured prefix
CounterKeys(configured_prefix, identifier) ==
    {getKeyOf(configured_prefix, identifier, ToString(w)) : w \in WindowIndices}
\* the counter keys of an identifier under this limiter
OwnCounterKeys(identifier) ==
    {getKey(identifier, ToString(w)) : w \in WindowIndices}
\* the keys the store commands of caller p's call name
KeysOfCall(p) ==
    IF options.type = "fixed"
    THEN {window_key(loc[p].identifier, loc[p].now)}
    ELSE {current_key(loc[p].identifier, loc[p].now),
          previous_key(loc[p].identifier, loc[p].now)}
\* caller p's call executes a store command in this step
StoreStep(p) == pc[p] \in {"incr", "expire", "ttl", "script"} /\ pc'[p] # pc[p]
\* value and expiration of the keys in K are the same before and after
Untouched(K) ==
    \A k \in K :
        /\ (k \in DOMAIN store) = (k \in DOMAIN store')
        /\ k \in DOMAIN store => store'[k] = store[k]

\* no call made so far, other than caller p's, was for p's identifier
AloneOnItsIdentifier(p) ==
    /\ \A i \in DOMAIN log : log[i].identifier # loc[p].identifier
    /\ \A q \in Batch \ {p} : loc[q].identifier # loc[p].identifier

\* C17: key isolation: for one limiter and two distinct identifiers, no store
\* command of a limit call on one identifier names, or changes the value or
\* TTL of, a counter key of the other identifier; and a call on an identifier
\* returns what it would if the calls on other identifiers had not happened
\* (as a first call: admitted, remaining = limit - 1).
C17_KeyIsolation ==
    /\ [][\A p \in Callers :
             StoreStep(p) =>
                 \A other \in IsolationIdentifiers \ {loc[p].identifier} :
                     /\ KeysOfCall(p) \cap OwnCounterKeys(other) = {}
                     /\ Untouched(OwnCounterKeys(other))]_vars
    /\ [](\A p \in Callers :
              (Returning(p) /\ AloneOnItsIdentifier(p)) =>
                  /\ ResponseOf(p).success
                  /\ ResponseOf(p).remaining = options.limit - 1)

\* calls for "a" and for "a:1" have both written their counters, in windows
\* 1 and 0: the keys "...:a:1" and "...:a:1:0" stand side by side
C17_Witness ==
    /\ getKey("a", "1") \in DOMAIN store
    /\ getKey("a:1", "0") \in DOMAIN store
    /\ Len(log) = 2
    /\ \A i \in DOMAIN log : log[i].success /\ log[i].remaining = options.limit - 1

\* the configured prefix, or the default when it is empty
EffectivePrefix(configured_prefix) ==
    IF configured_prefix = "" THEN "ratelimit" ELSE configured_prefix

\* C18 as stated: prefix isolation: for two limiters on one store whose
\* configured prefixes differ (any strings) and any identifiers, no store
\* command of a call on one limiter names or changes a counter key of the other.
C18_AsStated ==
    [][\A p \in Callers :
           StoreStep(p) =>
               \A other_prefix \in IsolationPrefixes \ {options.prefix} :
                   \A other \in IsolationIdentifiers :
                       /\ KeysOfCall(p) \cap CounterKeys(other_prefix, other) = {}
                       /\ Untouched(CounterKeys(other_prefix, other))]_vars

\* C18 (amended): prefix isolation: for two limiters on one store whose
\* effective prefixes (the configured prefix, or "ratelimit" when it is empty)
\* differ, no store command of a call on one limiter names or changes the
\* counter key the other limiter uses for the same identifier.
C18_PrefixIsolation ==
    [][\A p \in Callers :
           StoreStep(p) =>
               \A other_prefix \in IsolationPrefixes :
                   EffectivePrefix(other_prefix) # EffectivePrefix(options.prefix)
                   => /\ KeysOfCall(p)
                             \cap CounterKeys(other_prefix, loc[p].identifier) = {}
                      /\ Untouched(CounterKeys(other_prefix, loc[p].identifier))]_vars

\* the limiter with prefix "x" has written its counter of "y:a"; the limiter
\* with prefix "x:y" has no such identifier's counter under its own prefix
C18_Witness ==
    /\ options.prefix = "x"
    /\ getKeyOf("x", "y:a", "0") \in DOMAIN store
    /\ getKeyOf("x:y", "y:a", "0") \notin DOMAIN store

(* ------------------------------ C19 ------------------------------------ *)
\* new Ratelimit(valkey, options) for integer limits and windows around 0 and
\* the kinds 'fixed', 'sliding' and 'invalid', followed by calls of limit()
\* on the limiter when the constructor returned one.
ConfigMin == 0 - 1
ConfigMax == 2
ConfigMaxCalls == 2

InitConstruct ==
    /\ built = "new"
    /\ options \in [type : {"fixed", "sliding", "invalid"},
                    limit : ConfigMin..ConfigMax,
                    window : ConfigMin..ConfigMax, prefix : {""}]
    /\ script_sha = NoSha
    /\ script_cache = {}
    /\ now = 0
    /\ store = <<>>
    /\ pc = [p \in Callers |-> "idle"]
    /\ loc = [p \in Callers |-> IdleLoc]
    /\ calls = 0
    /\ overlapped = FALSE
    /\ log = <<>>

\* constructor: this.valkey = valkey; this.validateOptions(options)
Construct ==
    /\ built = "new"
    /\ built' = IF validateOptions(options) THEN "constructed"
                ELSE "ConfigurationError"
    /\ UNCHANGED <<script_sha, script_cache, options, now, store, pc, loc, calls,
                   overlapped, log>>

NextConstruct ==
    \/ Construct
    \/ EnterWith(1, Identifiers, ConfigMaxCalls)
    \/ FixedIncr(1)
    \/ FixedExpire(1)
    \/ FixedTtl(1)
    \/ FixedReturn(1)
    \/ SlidingScript(1)
    \/ SlidingReturn(1)

SpecConstruct == InitConstruct /\ [][NextConstruct]_vars

\* C19: constructing a limiter raises ConfigurationError iff limit <= 0, or
\* window <= 0, or the kind is neither 'fixed' nor 'sliding'; every other
\* integer configuration constructs; the validation runs at construction, before
\* any store command is issued, and no call of limit() changes the outcome.
C19_ConfigurationError ==
    /\ [](built # "new" =>
              (built = "ConfigurationError") =
                  ( \/ options.limit <= 0
                    \/ options.window <= 0
                    \/ options.type \notin {"fixed", "sliding"} ))
    /\ [](built # "new" => built \in {"constructed", "ConfigurationError"})
    /\ [](built # "constructed" => store = <<>> /\ calls = 0)
    /\ [][built # "new" => built' = built]_vars

\* limit = 0 with an otherwise valid configuration was refused
C19_Witness ==
    /\ built = "ConfigurationError"
    /\ options.limit = 0
    /\ options.window = 1
    /\ options.type = "sliding"

\* a valid configuration was constructed and has served a call
C19_WitnessConstructed ==
    /\ built = "constructed"
    /\ log # <<>>

(* ------------------------------ C20 ------------------------------------ *)
\* Store commands that fail: the promise of a command issued inside limit()
\* rejects with an Error, a string or a number (a rejected command may or may
\* not have been executed by the store before its reply was lost).
FailureMaxCalls == 2
Rejections ==
    {[type |-> "Error", message |-> "Redis connection lost"],
     [type |-> "string", value |-> "string error"],
     [type |-> "number", value |-> 42]}

\* String(error) for a rejection that is not an Error
StringOf(reason) ==
    IF reason.type = "string" THEN reason.value ELSE ToString(reason.value)
\* slip: error as Error, the rejection is passed on as it came
wrapError_casts(reason) ==
    [name |-> "ValkeyError", message |-> "Failed to check rate limit",
     originalError |-> reason]
\* new ValkeyError('Failed to check rate limit',
\*                 error instanceof Error ? error : new Error(String(error)))
wrapError(reason) ==
    [name |-> "ValkeyError", message |-> "Failed to check rate limit",
     originalError |-> IF reason.type = "Error" THEN reason
                       ELSE [type |-> "Error", message |-> StringOf(reason)]]

InitFailure ==
    /\ options \in {o \in [type : {"fixed", "sliding"}, limit : {1},
                          window : {1}, prefix : {""}] :
                        validateOptions(o)}
    /\ built = "constructed"
    /\ script_sha = NoSha
    /\ script_cache = {}
    /\ now = 0
    /\ store = <<>>
    /\ pc = [p \in Callers |-> "idle"]
    /\ loc = [p \in Callers |-> IdleLoc]
    /\ calls = 0
    /\ overlapped = FALSE
    /\ log = <<>>

\* await this.valkey.incr(window_key) rejects
FixedIncrRejects(p) ==
    /\ pc[p] = "incr"
    /\ \E reason \in Rejections :
           loc' = [loc EXCEPT ![p].rejection = reason]
    /\ store' \in {store, Incr(store, window_key(loc[p].identifier, loc[p].now))}
    /\ pc' = [pc EXCEPT ![p] = "catch"]
    /\ UNCHANGED <<built, script_sha, script_cache, options, now, calls, overlapped, log>>

\* await this.valkey.expire(window_key, window_size) rejects
FixedExpireRejects(p) ==
    /\ pc[p] = "expire"
    /\ \E reason \in Rejections :
           loc' = [loc EXCEPT ![p].rejection = reason]
    /\ store' \in {store,
                   PExpire(store, window_key(loc[p].identifier, loc[p].now),
                           options.window * 1000, now)}
    /\ pc' = [pc EXCEPT ![p] = "catch"]
    /\ UNCHANGED <<built, script_sha, script_cache, options, now, calls, overlapped, log>>

\* await this.valkey.ttl(window_key) rejects
FixedTtlRejects(p) ==
    /\ pc[p] = "ttl"
    /\ \E reason \in Rejections :
           loc' = [loc EXCEPT ![p].rejection = reason]
    /\ pc' = [pc EXCEPT ![p] = "catch"]
    /\ UNCHANGED <<built, script_sha, script_cache, options, now, store, calls, overlapped, log>>

\* await this.valkey.slidingWindowRateLimit(...) rejects
SlidingScriptRejects(p) ==
    /\ pc[p] = "script"
    /\ \E reason \in Rejections :
           loc' = [loc EXCEPT ![p].rejection = reason]
    /\ store' \in {store,
                   SlidingWindowScript(store,
                       current_key(loc[p].identifier, loc[p].now),
                       previous_key(loc[p].identifier, loc[p].now),
                       options.limit, loc[p].now, window_ms, 1, now).store}
    /\ pc' = [pc EXCEPT ![p] = "catch"]
    /\ UNCHANGED <<built, script_sha, script_cache, options, now, calls, overlapped, log>>

\* catch (error) { throw new ValkeyError(...) }: the rejection is wrapped
LimitCatch(p) ==
    /\ pc[p] = "catch"
    /\ loc' = [loc EXCEPT ![p].error = wrapError(loc[p].rejection)]
    /\ pc' = [pc EXCEPT ![p] = "throw"]
    /\ UNCHANGED <<built, script_sha, script_cache, options, now, store, calls, overlapped, log>>

\* the promise of limit() rejects with the wrapped error
LimitThrow(p) ==
    /\ pc[p] = "throw"
    /\ pc' = [pc EXCEPT ![p] = "idle"]
    /\ loc' = [loc EXCEPT ![p] = IdleLoc]
    /\ UNCHANGED <<built, script_sha, script_cache, options, now, store, calls, overlapped, log>>

NextFailure ==
    \/ \E p \in Callers : EnterWith(p, Identifiers, FailureMaxCalls)
    \/ \E p \in Callers : FixedIncr(p)
    \/ \E p \in Callers : FixedIncrRejects(p)
    \/ \E p \in Callers : FixedExpire(p)
    \/ \E p \in Callers : FixedExpireRejects(p)
    \/ \E p \in Callers : FixedTtl(p)
    \/ \E p \in Callers : FixedTtlRejects(p)
    \/ \E p \in Callers : FixedReturn(p)
    \/ \E p \in Callers : SlidingScript(p)
    \/ \E p \in Callers : SlidingScriptRejects(p)
    \/ \E p \in Callers : SlidingReturn(p)
    \/ \E p \in Callers : LimitCatch(p)
    \/ \E p \in Callers : LimitThrow(p)

SpecFailure == InitFailure /\ [][NextFailure]_vars

\* C20: whenever a store command issued inside limit() rejects, limit() fails
\* (it returns no response) with a ValkeyError whose message is exactly
\* 'Failed to check rate limit' and whose cause is the rejected Error itself,
\* or an Error whose message is the string form of a non-Error rejection; the
\* raw rejection is not what the caller gets.
C20_StoreErrorWrapped ==
    /\ [](\A p \in Callers :
              pc[p] = "throw" =>
                  /\ loc[p].rejection \in Rejections
                  /\ loc[p].error.name = "ValkeyError"
                  /\ loc[p].error.message = "Failed to check rate limit"
                  /\ loc[p].error.originalError.type = "Error"
                  /\ loc[p].rejection.type = "Error" =>
                         loc[p].error.originalError = loc[p].rejection
                  /\ loc[p].rejection = [type |-> "string", value |-> "string error"] =>
                         loc[p].error.originalError.message = "string error"
                  /\ loc[p].rejection = [type |-> "number", value |-> 42] =>
                         loc[p].error.originalError.message = "42"
                  /\ loc[p].error # loc[p].rejection)
    /\ [][\A p \in Callers :
              /\ (loc[p].rejection = NoError /\ loc'[p].rejection # NoError)
                     => pc'[p] = "catch"
              /\ (pc[p] = "catch" /\ pc'[p] # "catch") => pc'[p] = "throw"
              /\ (pc[p] = "throw" /\ pc'[p] # "throw")
                     => pc'[p] = "idle" /\ log' = log]_vars

\* the TTL command of a denied fixed-window call was rejected with a string
\* and limit() is about to throw the wrapped error
C20_Witness ==
    \E p \in Callers :
        /\ options.type = "fixed"
        /\ pc[p] = "throw"
        /\ loc[p].count > options.limit
        /\ loc[p].rejection.type = "string"
        /\ loc[p].error.originalError.message = "string error"

(* ------------------------------ C21 ------------------------------------ *)
\* The limiter that loads the script itself and caches its handle
\* (script_sha, loadScript, evalSha), with store commands that may reject.
\* The store keeps the scripts it has loaded.
CacheMaxCalls == 3
\* the handle SCRIPT LOAD returns for SLIDING_WINDOW_SCRIPT
ScriptSha == "sha"

\* new RedisError(message, error instanceof Error ? error : new Error(String(error)))
wrapRedisError(message, reason) ==
    [type |-> "Error", name |-> "RedisError", message |-> message,
     originalError |-> IF reason.type = "Error" THEN reason
                       ELSE [type |-> "Error", message |-> StringOf(reason)]]
\* slip: the handle is remembered although SCRIPT LOAD was rejected
script_sha_kept_from_rejected_load(cached) == ScriptSha
\* this.script_sha = await this.redis.scriptLoad(...): when the await rejects,
\* the assignment does not happen
script_sha_after_rejected_load(cached) == cached

InitCaching ==
    /\ options \in {o \in [type : {"fixed", "sliding"}, limit : {1},
                          window : {1}, prefix : {""}] :
                        validateOptions(o)}
    /\ built = "constructed"
    /\ script_sha = NoSha
    /\ script_cache = {}
    /\ now = 0
    /\ store = <<>>
    /\ pc = [p \in Callers |-> "idle"]
    /\ loc = [p \in Callers |-> IdleLoc]
    /\ calls = 0
    /\ overlapped = FALSE
    /\ log = <<>>

\* slip: the sliding engine does not test the handle before evaluating
EnterCaching_without_load(p) == EnterWith(p, Identifiers, CacheMaxCalls)
\* slip: the sliding engine loads the script on every call
EnterCaching_always_loads(p) ==
    /\ built = "constructed"
    /\ pc[p] = "idle"
    /\ calls < CacheMaxCalls
    /\ \E identifier \in Identifiers :
         loc' = [loc EXCEPT ![p] = [IdleLoc EXCEPT !.identifier = identifier,
                                                   !.now = now]]
    /\ pc' = [pc EXCEPT ![p] = IF options.type = "fixed" THEN "incr" ELSE "load"]
    /\ calls' = calls + 1
    /\ overlapped' = (overlapped \/ \E q \in Callers : pc[q] # "idle")
    /\ UNCHANGED <<built, script_sha, script_cache, options, now, store, log>>
\* limit(identifier): the fixed engine reads the time provider; the sliding
\* engine first tests if (!this.script_sha)
EnterCaching(p) ==
    /\ built = "constructed"
    /\ pc[p] = "idle"
    /\ calls < CacheMaxCalls
    /\ \E identifier \in Identifiers :
         loc' = [loc EXCEPT ![p] = [IdleLoc EXCEPT !.identifier = identifier,
                                                   !.now = now]]
    /\ pc' = [pc EXCEPT ![p] = IF options.type = "fixed" THEN "incr"
                               ELSE IF script_sha = NoSha THEN "load"
                               ELSE "script"]
    /\ calls' = calls + 1
    /\ overlapped' = (overlapped \/ \E q \in Callers : pc[q] # "idle")
    /\ UNCHANGED <<built, script_sha, script_cache, options, now, store, log>>

\* await this.loadScript() succeeds; then const now = this.time_provider()
LoadScript(p) ==
    /\ pc[p] = "load"
    /\ script_cache' = script_cache \cup {ScriptSha}
    /\ script_sha' = ScriptSha
    /\ loc' = [loc EXCEPT ![p].now = now]
    /\ pc' = [pc EXCEPT ![p] = "script"]
    /\ UNCHANGED <<built, options, now, store, calls, overlapped, log>>

\* this.redis.scriptLoad(...) rejects: loadScript throws RedisError('Failed to
\* load rate limit script', ...), which limit() catches
LoadScriptRejects(p) ==
    /\ pc[p] = "load"
    /\ script_cache' \in {script_cache, script_cache \cup {ScriptSha}}
    /\ script_sha' = script_sha_after_rejected_load(script_sha)
    /\ \E reason \in Rejections :
           loc' = [loc EXCEPT ![p].rejection =
                       wrapRedisError("Failed to load rate limit script", reason)]
    /\ pc' = [pc EXCEPT ![p] = "catch"]
    /\ UNCHANGED <<built, options, now, store, calls, overlapped, log>>

\* await this.redis.evalSha(this.script_sha!, ...) on a store that has the script
EvalSha(p) ==
    /\ script_sha \in script_cache
    /\ SlidingScript(p)

\* catch (error) { throw new RedisError('Failed to check rate limit', ...) }
LimitCatchCaching(p) ==
    /\ pc[p] = "catch"
    /\ loc' = [loc EXCEPT ![p].error =
                   wrapRedisError("Failed to check rate limit", loc[p].rejection)]
    /\ pc' = [pc EXCEPT ![p] = "throw"]
    /\ UNCHANGED <<built, script_sha, script_cache, options, now, store, calls,
                   overlapped, log>>

NextCaching ==
    \/ \E p \in Callers : EnterCaching(p)
    \/ \E p \in Callers : LoadScript(p)
    \/ \E p \in Callers : LoadScriptRejects(p)
    \/ \E p \in Callers : EvalSha(p)
    \/ \E p \in Callers : SlidingScriptRejects(p)
    \/ \E p \in Callers : SlidingReturn(p)
    \/ \E p \in Callers : FixedIncr(p)
    \/ \E p \in Callers : FixedIncrRejects(p)
    \/ \E p \in Callers : FixedExpire(p)
    \/ \E p \in Callers : FixedExpireRejects(p)
    \/ \E p \in Callers : FixedTtl(p)
    \/ \E p \in Callers : FixedTtlRejects(p)
    \/ \E p \in Callers : FixedReturn(p)
    \/ \E p \in Callers : LimitCatchCaching(p)
    \/ \E p \in Callers : LimitThrow(p)

SpecCaching == InitCaching /\ [][NextCaching]_vars

\* the number of limit() calls that have failed so far
ThrownCalls == calls - Len(log) - Cardinality(Batch)

\* C21: a limit call that fails with the store-operation error leaves the
\* limiter instance as it was (configuration and cached script handle), so a
\* later call is decided normally; a failed script load leaves the handle
\* uncached, a cached handle is always one the store has loaded, and a sliding
\* call never reaches the script evaluation without a handle.
C21_UsableAfterFailure ==
    /\ [][\A p \in Callers :
              ( /\ pc'[p] # pc[p]
                /\ pc'[p] = "catch" \/ pc[p] \in {"catch", "throw"} )
              => UNCHANGED <<built, options, script_sha>>]_vars
    /\ [](script_sha # NoSha => script_sha \in script_cache)
    /\ [](\A p \in Callers : pc[p] = "script" => script_sha # NoSha)
    /\ [](\A p \in Callers :
              pc[p] = "throw" =>
                  /\ loc[p].error.name = "RedisError"
                  /\ loc[p].error.message = "Failed to check rate limit")

\* after a call failed while no handle was cached (its script load was
\* rejected), the next sliding call has loaded the script and is admitted
C21_Witness ==
    \E p \in Callers :
        /\ options.type = "sliding"
        /\ ThrownCalls = 1
        /\ calls = 2
        /\ ~overlapped
        /\ script_cache = {ScriptSha}
        /\ script_sha = ScriptSha
        /\ pc[p] = "sreturn"
        /\ ResponseOf(p).success
        /\ ResponseOf(p).remaining = options.limit - 1

\* after a failed call no handle is cached and the next sliding call is about
\* to load the script again
C21_WitnessLoadsAgain ==
    \E p \in Callers :
        /\ ThrownCalls = 1
        /\ ~overlapped
        /\ script_sha = NoSha
        /\ pc[p] = "load"

(* ------------------------------ C22 ------------------------------------ *)
\* The fixed engine when the EXPIRE after the first INCR is lost: the command
\* rejects, or the calling process dies between the two awaits.
OrphanMaxCalls == 3
OrphanMaxTicks == 2

InitOrphan ==
    /\ options \in {o \in [type : {"fixed"}, limit : {1},
                          window : {1}, prefix : {""}] :
                        validateOptions(o)}
    /\ built = "constructed"
    /\ script_sha = NoSha
    /\ script_cache = {}
    /\ now = 0
    /\ store = <<>>
    /\ pc = [p \in Callers |-> "idle"]
    /\ loc = [p \in Callers |-> IdleLoc]
    /\ calls = 0
    /\ overlapped = FALSE
    /\ log = <<>>

\* the clock advances; the store drops the keys whose expiration has passed
TickOrphan ==
    /\ now + TickMs <= OrphanMaxTicks * TickMs
    /\ now' = now + TickMs
    /\ store' = Purge(store, now')
    /\ UNCHANGED <<built, script_sha, script_cache, options, pc, loc, calls,
                   overlapped, log>>

\* the calling process dies after incr() resolved with 1 and before it issues
\* expire(): the call never returns and EXPIRE is never sent
CrashBeforeExpire(p) ==
    /\ pc[p] = "expire"
    /\ pc' = [pc EXCEPT ![p] = "idle"]
    /\ loc' = [loc EXCEPT ![p] = IdleLoc]
    /\ UNCHANGED <<built, script_sha, script_cache, options, now, store, calls,
                   overlapped, log>>

NextOrphan ==
    \/ TickOrphan
    \/ \E p \in Callers : EnterWith(p, Identifiers, OrphanMaxCalls)
    \/ \E p \in Callers : FixedIncr(p)
    \/ \E p \in Callers : FixedExpire(p)
    \/ \E p \in Callers : FixedExpireRejects(p)
    \/ \E p \in Callers : CrashBeforeExpire(p)
    \/ \E p \in Callers : FixedTtl(p)
    \/ \E p \in Callers : FixedReturn(p)
    \/ \E p \in Callers : LimitCatch(p)
    \/ \E p \in Callers : LimitThrow(p)

SpecOrphan == InitOrphan /\ [][NextOrphan]_vars

\* key k is in the store without TTL and no call is about to send its EXPIRE
Orphaned(k) ==
    /\ k \in DOMAIN store
    /\ store[k].exp = NoTtl
    /\ \A p \in Callers :
           ~(pc[p] = "expire" /\ window_key(loc[p].identifier, loc[p].now) = k)
\* some counter key of the identifier other than k is orphaned and used up
ExhaustedOrphanBeside(identifier, k) ==
    \E j \in OwnCounterKeys(identifier) \ {k} :
        Orphaned(j) /\ store[j].val > options.limit

\* C22 as stated: once a counter key of the identifier is left without TTL and
\* is used up, every later call for the identifier is denied.
C22_AsStated ==
    \A p \in Callers :
        ( /\ pc[p] = "return"
          /\ ~overlapped
          /\ \E k \in OwnCounterKeys(loc[p].identifier) :
                 Orphaned(k) /\ store[k].val > options.limit )
        => ~ResponseOf(p).success

\* C22: fixed window, the INCR that returned 1 was executed and its EXPIRE is
\* never applied: the counter key stays in the store without TTL and its count
\* never goes down; a call made alone on that key is denied exactly when its
\* count exceeds the limit, with retry_after = 0; the identifier is not
\* starved, because a call of another window counts on another key, and the
\* first INCR on that key is admitted with remaining = limit - 1.
C22_OrphanedCounter ==
    /\ [][\A k \in DOMAIN store :
              Orphaned(k) => Orphaned(k)' /\ store'[k].val >= store[k].val]_vars
    /\ [](\A p \in Callers :
              ( /\ pc[p] = "return"
                /\ ~overlapped
                /\ Orphaned(window_key(loc[p].identifier, loc[p].now)) )
              => /\ ResponseOf(p).success = (loc[p].count <= options.limit)
                 /\ ~ResponseOf(p).success => ResponseOf(p).retry_after = 0)
    /\ [](\A p \in Callers :
              ( /\ pc[p] = "return"
                /\ loc[p].count = 1
                /\ ExhaustedOrphanBeside(loc[p].identifier,
                       window_key(loc[p].identifier, loc[p].now)) )
              => /\ ResponseOf(p).success
                 /\ ResponseOf(p).remaining = options.limit - 1)

\* a counter key was orphaned and used up, and a call made alone in a later
\* window is admitted
C22_Witness ==
    \E p \in Callers :
        /\ pc[p] = "return"
        /\ ~overlapped
        /\ ExhaustedOrphanBeside(loc[p].identifier,
               window_key(loc[p].identifier, loc[p].now))
        /\ ResponseOf(p).success

\* a call made alone on the orphaned key is denied with retry_after = 0
C22_WitnessDenied ==
    \E p \in Callers :
        /\ pc[p] = "return"
        /\ ~overlapped
        /\ Orphaned(window_key(loc[p].identifier, loc[p].now))
        /\ ~ResponseOf(p).success
        /\ loc[p].ttl = NoTtl

(* --------------------------- C23, C24, C25 ----------------------------- *)
\* caller p's script call is executed in this step
ScriptStep(p) == pc[p] = "script" /\ pc'[p] = "sreturn"
\* keys of the sliding call caller p has in flight
CurrentKeyOf(p) == current_key(loc[p].identifier, loc[p].now)
PreviousKeyOf(p) == previous_key(loc[p].identifier, loc[p].now)

\* C23: a denied sliding-window call leaves the store unchanged: every key
\* (current, previous, any other) has the same value and the same expiration
\* after the script call as before it, and no key is created or removed.
C23_DeniedLeavesStore ==
    [][\A p \in Callers :
           (ScriptStep(p) /\ loc'[p].reply[1] < 0) => store' = store]_vars

\* a sliding call was denied while both its keys were in the store
C23_Witness ==
    \E p \in Callers :
        /\ options.type = "sliding"
        /\ pc[p] = "sreturn"
        /\ ~ResponseOf(p).success
        /\ CurrentKeyOf(p) \in DOMAIN store
        /\ PreviousKeyOf(p) \in DOMAIN store

\* C24: an admitted sliding-window call sets the current-window key to its
\* stored value (0 if missing) plus 1 and, on every admission, sets that key's
\* expiration to 2 * window_ms + 1000 ms after the instant the store runs the
\* script; every other key, the previous-window key included, keeps its value
\* and expiration, and no other key is created or removed.
C24_AdmittedWrites ==
    [][\A p \in Callers :
           (ScriptStep(p) /\ loc'[p].reply[1] >= 0) =>
               /\ DOMAIN store' = DOMAIN store \cup {CurrentKeyOf(p)}
               /\ store'[CurrentKeyOf(p)].val = Get(store, CurrentKeyOf(p)) + 1
               /\ store'[CurrentKeyOf(p)].exp = now + 2 * window_ms + 1000
               /\ \A k \in DOMAIN store \ {CurrentKeyOf(p)} : store'[k] = store[k]]_vars

\* an admission that is not the first on its key, made later than the first
\* and with the previous-window key in the store, has moved the expiration
C24_Witness ==
    \E p \in Callers :
        /\ options.type = "sliding"
        /\ pc[p] = "sreturn"
        /\ ResponseOf(p).success
        /\ now = loc[p].exec_at
        /\ now % window_ms # 0
        /\ PreviousKeyOf(p) \in DOMAIN store
        /\ store[CurrentKeyOf(p)].val >= 2
        /\ store[CurrentKeyOf(p)].exp = now + 2 * window_ms + 1000

\* the sliding counter of window index w of the identifier is readable
Readable(identifier, w) ==
    /\ getKey(identifier, ToString(w)) \in DOMAIN store
    /\ store[getKey(identifier, ToString(w))].val >= 1

\* C25: sliding window, a counter written for window index w by an admitted
\* call has not expired at any instant at which w is the current or the
\* previous window (now < (w + 2) * window_ms): it is still in the store with
\* a non-zero count.
C25_CounterOutlivesNextWindow ==
    options.type = "sliding" =>
        /\ \A i \in 1..Len(log) :
               ( /\ log[i].success
                 /\ now < (current_window(log[i].entry) + 2) * window_ms )
               => Readable(log[i].identifier, current_window(log[i].entry))
        /\ \A p \in Callers :
               ( /\ pc[p] = "sreturn"
                 /\ ResponseOf(p).success
                 /\ now < (current_window(loc[p].now) + 2) * window_ms )
               => Readable(loc[p].identifier, current_window(loc[p].now))

\* the clock is in the last second of window w + 1 and the counter an admitted
\* call wrote for window w is still readable, with an expiration
C25_Witness ==
    \E i \in 1..Len(log) :
        /\ options.type = "sliding"
        /\ log[i].success
        /\ current_window(now) = current_window(log[i].entry) + 1
        /\ current_window(now + TickMs) = current_window(log[i].entry) + 2
        /\ Readable(log[i].identifier, current_window(log[i].entry))
        /\ store[getKey(log[i].identifier,
                        ToString(current_window(log[i].entry)))].exp # NoTtl

(* ----------------------------- C26, C27 -------------------------------- *)
\* what caller p's script call is about to read, and the instant it passes
PreviousCountOf(p) == Get(store, PreviousKeyOf(p))
CurrentCountOf(p) == Get(store, CurrentKeyOf(p))
TimeInCurrentOf(p) == loc[p].now % window_ms

C26_WitnessNoPrevious ==
    \E p \in Callers :
        /\ pc[p] = "sreturn"
        /\ ~ResponseOf(p).success
        /\ now = loc[p].exec_at
        /\ PreviousCountOf(p) = 0
        /\ TimeInCurrentOf(p) # 0
        /\ ResponseOf(p).retry_after = window_ms - TimeInCurrentOf(p)

DocumentedKeyOf(p) ==
    (IF options.prefix = "" THEN "ratelimit" ELSE options.prefix)
        \o ":" \o loc[p].identifier
        \o ":" \o ToString(loc[p].now \div (options.window * 1000))

\* C28: the key builder maps (prefix, identifier, suffix) to the string
\* '<prefix>:<identifier>:<suffix>', with 'ratelimit' for the prefix when the
\* configuration has none or an empty one: the counter a call changes is the
\* key of that form for its identifier and window index, and calls with the
\* same prefix, identifier and window index address the same keys.
C28_KeyBuilder ==
    /\ [](getKeyOf("", "test", "123") = "ratelimit:test:123")
    /\ [](getKeyOf("custom", "test", "123") = "custom:test:123")
    /\ [][\A p \in Callers :
              StoreStep(p) =>
                  /\ DocumentedKeyOf(p) \in KeysOfCall(p)
                  /\ Untouched((DOMAIN store \cup DOMAIN store')
                                   \ {DocumentedKeyOf(p)})]_vars
    /\ [](\A p, q \in Callers :
              ( /\ pc[p] # "idle"
                /\ pc[q] # "idle"
                /\ loc[p].identifier = loc[q].identifier
                /\ current_window(loc[p].now) = current_window(loc[q].now) )
              => KeysOfCall(p) = KeysOfCall(q))

\* a limiter without prefix and a limiter with prefix 'x:y' have counted a call
\* of window 1 on the key of the documented form
C28_Witness ==
    \/ options.prefix = "" /\ "ratelimit:a:1:1" \in DOMAIN store
    \/ options.prefix = "x:y" /\ "x:y:a:1:1" \in DOMAIN store

(* ------------------------------ C29 ------------------------------------ *)
\* caller p's INCR is executed in this step
IncrStep(p) == pc[p] = "incr" /\ pc'[p] # "incr"
\* the fixed-window key of the call caller p has in flight
WindowKeyOf(p) == window_key(loc[p].identifier, loc[p].now)
\* the earliest instant known to lie in the present lifetime of key k, which
\* is in the store: the creating INCR when its EXPIRE is still to come, else
\* one window before the expiration
AliveSince(k) ==
    IF store[k].exp = NoTtl
    THEN LET c == CHOOSE c \in Callers : pc[c] = "expire" /\ WindowKeyOf(c) = k
         IN  loc[c].exec_at
    ELSE store[k].exp - window_ms
\* caller p's INCR has answered, within the present lifetime of its key
CountedInLifetime(p) ==
    /\ Incremented(p)
    /\ WindowKeyOf(p) \in DOMAIN store
    /\ loc[p].exec_at >= AliveSince(WindowKeyOf(p))

\* C29: fixed window, over the lifetime of one counter key every INCR returns
\* the stored count plus one and stores it (1 on a key that is not there), and
\* nothing else changes the count of a key in the store; so the counts INCR
\* returned to concurrent callers are pairwise distinct and increase in the
\* order the store executed them, the caller that goes on to EXPIRE is the
\* one that saw 1, and at most one caller at a time is about to EXPIRE a key.
C29_IncrSerialised ==
    /\ [][\A p \in Callers :
              IncrStep(p) =>
                  /\ loc'[p].count = Get(store, WindowKeyOf(p)) + 1
                  /\ store'[WindowKeyOf(p)].val = loc'[p].count
                  /\ (pc'[p] = "expire") = (loc'[p].count = 1)]_vars
    /\ [][(options.type = "fixed" /\ now' = now /\ \A p \in Callers : ~IncrStep(p))
              => \A k \in DOMAIN store :
                     k \in DOMAIN store' /\ store'[k].val = store[k].val]_vars
    /\ [](\A p, q \in Callers :
              (p # q /\ pc[p] = "expire" /\ pc[q] = "expire")
              => WindowKeyOf(p) # WindowKeyOf(q))
    /\ [](\A p, q \in Callers :
              ( /\ options.type = "fixed"
                /\ p # q
                /\ WindowKeyOf(p) = WindowKeyOf(q)
                /\ CountedInLifetime(p)
                /\ CountedInLifetime(q) )
              => /\ loc[p].count # loc[q].count
                 /\ loc[p].exec_at < loc[q].exec_at => loc[p].count < loc[q].count)

\* two callers have incremented one key at one store instant: one saw 1 and is
\* about to EXPIRE, the other saw 2
C29_Witness ==
    \E p, q \in Callers :
        /\ options.type = "fixed"
        /\ WindowKeyOf(p) = WindowKeyOf(q)
        /\ pc[p] = "expire"
        /\ loc[p].count = 1
        /\ Incremented(q)
        /\ loc[q].count = 2
        /\ loc[q].exec_at = loc[p].exec_at

(* ------------------------------ C30 ------------------------------------ *)
\* the call of caller p moves on in this step
CallStep(p) == pc'[p] # pc[p]

\* C30: store commands per limit call. A fixed-window call issues INCR first,
\* then EXPIRE exactly when INCR returned 1, then TTL exactly when
\* count > limit, then returns: each command at most once, at most three in
\* all, and nothing else touches the store. A sliding-window call does its
\* whole read-decide-write in one script call and issues no INCR, EXPIRE or TTL.
C30_CommandsPerCall ==
    /\ [][\A p \in Callers :
              CallStep(p) =>
                  /\ pc[p] = "idle" =>
                         pc'[p] = (IF options.type = "fixed" THEN "incr" ELSE "script")
                  /\ pc[p] = "incr" =>
                         pc'[p] = (IF loc'[p].count = 1 THEN "expire"
                                   ELSE IF loc'[p].count > options.limit THEN "ttl"
                                   ELSE "return")
                  /\ pc[p] = "expire" =>
                         /\ loc[p].count = 1
                         /\ pc'[p] = (IF loc[p].count > options.limit THEN "ttl"
                                      ELSE "return")
                  /\ pc[p] = "ttl" =>
                         /\ loc[p].count > options.limit
                         /\ pc'[p] = "return"
                  /\ pc[p] = "return" => pc'[p] = "idle"
                  /\ pc[p] = "script" => pc'[p] = "sreturn"
                  /\ pc[p] = "sreturn" => pc'[p] = "idle"]_vars
    /\ [][(store' # store /\ now' = now) =>
              \E p \in Callers :
                  /\ CallStep(p)
                  /\ pc[p] \in {"incr", "expire", "script"}
                  /\ Untouched((DOMAIN store \cup DOMAIN store') \ KeysOfCall(p))]_vars
    /\ [](\A p \in Callers :
              pc[p] \in (IF options.type = "fixed"
                         THEN {"idle", "incr", "expire", "ttl", "return"}
                         ELSE {"idle", "script", "sreturn"}))

\* one fixed-window call has seen count 1 and is about to EXPIRE, another has
\* seen a count above the limit and is about to read the TTL
C30_Witness ==
    \E p, q \in Callers :
        /\ pc[p] = "expire"
        /\ pc[q] = "ttl"
        /\ loc[q].count > options.limit

\* a sliding-window call has been decided and has written its count with its
\* one script call
C30_WitnessSliding ==
    \E p \in Callers :
        /\ options.type = "sliding"
        /\ pc[p] = "sreturn"
        /\ ResponseOf(p).success
        /\ CurrentKeyOf(p) \in DOMAIN store

(* ------------------------------ C31 ------------------------------------ *)
\* caller p's scriptLoad resolves or rejects in this step
LoadStep(p) == pc[p] = "load" /\ pc'[p] # "load"

\* C31: script-handle cache, under any interleaving of concurrent first
\* sliding calls: the script is never evaluated with an unset handle; the
\* handle, once set, is never unset or changed; a load made while the handle
\* is already set stores the same handle again; and no load changes the
\* counters or the call of another caller.
C31_HandleWriteOnce ==
    /\ [](\A p \in Callers : pc[p] \in {"script", "sreturn"} => script_sha # NoSha)
    /\ [][script_sha # NoSha => script_sha' = script_sha]_vars
    /\ [][\A p \in Callers :
              LoadStep(p) =>
                  /\ store' = store
                  /\ script_sha' \in {script_sha, ScriptSha}
                  /\ \A q \in Callers \ {p} : pc'[q] = pc[q] /\ loc'[q] = loc[q]]_vars

\* two first calls overlapped and both found no handle: one has loaded the
\* script and gone on, the other is about to load it a second time
C31_Witness ==
    \E p, q \in Callers :
        /\ pc[p] = "load"
        /\ pc[q] \in {"script", "sreturn"}
        /\ script_sha = ScriptSha
        /\ calls = 2

\* both of them have loaded the script; the first is admitted and the second,
\* one over the limit, is about to be denied
C31_WitnessBothLoaded ==
    \E p \in Callers :
        /\ Len(log) = 1
        /\ log[1].success
        /\ calls = 2
        /\ overlapped
        /\ ThrownCalls = 0
        /\ pc[p] = "sreturn"
        /\ ~ResponseOf(p).success

(* ------------------------------ C32 ------------------------------------ *)
\* the time provider's value changes in this step
ClockStep == now' # now
\* the window index of the reading caller p's call took at entry
EntryWindowOf(p) == loc[p].now \div (options.window * 1000)

\* C32: within one limit call the time provider is read once at entry and,
\* in the sliding path only, once more for the reset field. The window index,
\* the keys and the script's now argument come from the entry reading: a
\* clock that moves while the call is in flight changes none of them, changes
\* nothing in a fixed-window response and nothing but reset in a
\* sliding-window response, and reset is the window end of the entry reading
\* (fixed) or the return reading plus two windows (sliding).
C32_SingleEntryReading ==
    /\ [][\A p \in Callers :
              (ClockStep /\ pc[p] # "idle") =>
                  /\ loc'[p].now = loc[p].now
                  /\ KeysOfCall(p)' = KeysOfCall(p)
                  /\ pc[p] = "return" => ResponseOf(p)' = ResponseOf(p)
                  /\ pc[p] = "sreturn" =>
                         ResponseOf(p)' = [ResponseOf(p) EXCEPT
                                              !.reset = now' + options.window * 2000]]_vars
    /\ [][\A p \in Callers :
              ScriptStep(p) =>
                  [reply |-> loc'[p].reply, store |-> store'] =
                      SlidingWindowScript(store,
                          getKey(loc[p].identifier, ToString(EntryWindowOf(p))),
                          getKey(loc[p].identifier, ToString(EntryWindowOf(p) - 1)),
                          options.limit, loc[p].now, options.window * 1000, 1, now)]_vars
    /\ [](\A p \in Callers :
              /\ pc[p] \in {"incr", "expire", "ttl", "return"} =>
                     KeysOfCall(p) = {getKey(loc[p].identifier,
                                             ToString(EntryWindowOf(p)))}
              /\ pc[p] = "return" =>
                     ResponseOf(p).reset = (EntryWindowOf(p) + 1) * options.window * 1000
              /\ pc[p] = "sreturn" =>
                     ResponseOf(p).reset = now + options.window * 2000)

\* a fixed-window call is about to return after the clock has left the window
\* of its entry reading: its reset is still the end of that window
C32_Witness ==
    \E p \in Callers :
        /\ pc[p] = "return"
        /\ current_window(now) > EntryWindowOf(p)
        /\ ResponseOf(p).reset < now

\* a sliding-window call whose script ran in a later window than its entry
\* reading was counted on the key of the entry reading
C32_WitnessSliding ==
    \E p \in Callers :
        /\ pc[p] = "sreturn"
        /\ ResponseOf(p).success
        /\ current_window(loc[p].exec_at) > EntryWindowOf(p)
        /\ getKey(loc[p].identifier, ToString(EntryWindowOf(p))) \in DOMAIN store

(* ------------------------------ C33 ------------------------------------ *)
\* C33: no limit call of either algorithm deletes a counter key or lowers a
\* stored count: every INCR and every admitted script call raises the count
\* of its key by exactly 1, no other step of a call changes a count, and a key
\* leaves the store only when the clock passes its expiration.
C33_CountersOnlyGrow ==
    /\ [][~ClockStep =>
              \A k \in DOMAIN store :
                  /\ k \in DOMAIN store'
                  /\ store'[k].val \in {store[k].val, store[k].val + 1}]_vars
    /\ [][\A p \in Callers :
              /\ IncrStep(p) =>
                     store'[WindowKeyOf(p)].val = Get(store, WindowKeyOf(p)) + 1
              /\ (ScriptStep(p) /\ loc'[p].reply[1] >= 0) =>
                     store'[CurrentKeyOf(p)].val = Get(store, CurrentKeyOf(p)) + 1]_vars
    /\ [][ClockStep =>
              \A k \in DOMAIN store :
                  IF k \in DOMAIN store'
                  THEN store'[k] = store[k]
                  ELSE store[k].exp # NoTtl /\ now' > store[k].exp]_vars

\* the counter of an earlier window has expired and a later counter has been
\* raised twice
C33_Witness ==
    \E i \in 1..Len(log) :
        /\ log[i].success
        /\ getKey(log[i].identifier, ToString(current_window(log[i].entry)))
               \notin DOMAIN store
        /\ \E k \in DOMAIN store : store[k].val >= 2

(* ------------------------------ C34 ------------------------------------ *)
\* C34: sliding window, in every reachable state and under any interleaving,
\* every stored counter value v satisfies 1 <= v <= limit.
C34_SlidingCounterBounded ==
    options.type = "sliding" =>
        \A k \in DOMAIN store :
            /\ 1 <= store[k].val
            /\ store[k].val <= options.limit

\* a sliding counter stands at the limit, above 1, and a call on it has just
\* been denied
C34_Witness ==
    \E p \in Callers :
        /\ options.type = "sliding"
        /\ options.limit >= 2
        /\ pc[p] = "sreturn"
        /\ ~ResponseOf(p).success
        /\ CurrentKeyOf(p) \in DOMAIN store
        /\ store[CurrentKeyOf(p)].val = options.limit

(* ------------------------------ C35 ------------------------------------ *)
\* the fixed-window counter key of window index w of the identifier
FixedKey(identifier, w) == getKey(identifier, ToString(w))

\* C35: fixed window, once the EXPIRE following the first INCR is applied,
\* the expiration instant of the counter key of window index w is at or after
\* the end of window w; no counter key leaves the store at an instant inside
\* its own window, so the count is never reset in the middle of a window.
C35_KeyOutlivesWindow ==
    /\ [](options.type = "fixed" =>
              \A identifier \in Identifiers : \A w \in WindowIndices :
                  ( /\ FixedKey(identifier, w) \in DOMAIN store
                    /\ store[FixedKey(identifier, w)].exp # NoTtl )
                  => store[FixedKey(identifier, w)].exp >= (w + 1) * window_ms)
    /\ [][options.type = "fixed" =>
              \A identifier \in Identifiers : \A w \in WindowIndices :
                  ( /\ FixedKey(identifier, w) \in DOMAIN store
                    /\ now' < (w + 1) * window_ms )
                  => /\ FixedKey(identifier, w) \in DOMAIN store'
                     /\ store'[FixedKey(identifier, w)].val
                            >= store[FixedKey(identifier, w)].val]_vars

\* the clock is inside window w, past its start, and the key of window w is in
\* the store with the expiration its EXPIRE gave it, the end of the window
C35_Witness ==
    \E identifier \in Identifiers : \E w \in WindowIndices :
        /\ options.type = "fixed"
        /\ FixedKey(identifier, w) \in DOMAIN store
        /\ store[FixedKey(identifier, w)].exp = (w + 1) * window_ms
        /\ current_window(now) = w
        /\ now > w * window_ms

(* ------------------------------ C36 ------------------------------------ *)
\* the calls for the identifier that read the clock in window w and whose
\* INCR the store has executed: those that returned and those in flight
CountedCalls(identifier, w) ==
    Cardinality({i \in 1..Len(log) :
                     /\ log[i].identifier = identifier
                     /\ current_window(log[i].entry) = w})
    + Cardinality({p \in Callers :
                     /\ Incremented(p)
                     /\ loc[p].identifier = identifier
                     /\ current_window(loc[p].now) = w})

\* C36: fixed window, a denied call increments the counter like an admitted
\* one: at every instant of window w the stored value of the window's key (0
\* when the key is not there) is the number of calls made in the window so
\* far, admitted plus denied, whatever the limit.
C36_DeniedCallsCounted ==
    options.type = "fixed" =>
        \A identifier \in Identifiers :
            Get(store, FixedKey(identifier, current_window(now)))
                = CountedCalls(identifier, current_window(now))

\* three calls were made in one window with limit 1: two of them denied, and
\* the stored count is 3
C36_Witness ==
    \E identifier \in Identifiers :
        /\ options.type = "fixed"
        /\ options.limit = 1
        /\ Len(log) = 3
        /\ \A i \in 1..3 : current_window(log[i].entry) = current_window(now)
        /\ Cardinality({i \in 1..3 : ~log[i].success}) = 2
        /\ Get(store, FixedKey(identifier, current_window(now))) = 3

(* ------------------------------ C37 ------------------------------------ *)
\* One caller on a sliding limiter with a one-second window, the clock moving
\* in quarter seconds over several windows, past the expiration of the first
\* counters.
DecayLimit == 3
DecayWindow == 1
DecayMaxCalls == 4
DecayTickMs == 250
DecayMaxTicks == 14

InitDecay ==
    /\ options \in {o \in [type : {"sliding"}, limit : {DecayLimit},
                          window : {DecayWindow}, prefix : {""}] :
                        validateOptions(o)}
    /\ built = "constructed"
    /\ script_sha = NoSha
    /\ script_cache = {}
    /\ now = 0
    /\ store = <<>>
    /\ pc = [p \in Callers |-> "idle"]
    /\ loc = [p \in Callers |-> IdleLoc]
    /\ calls = 0
    /\ overlapped = FALSE
    /\ log = <<>>

\* the clock advances between calls; the store drops the keys whose
\* expiration has passed
TickDecay ==
    /\ pc[1] = "idle"
    /\ now + DecayTickMs <= DecayMaxTicks * DecayTickMs
    /\ now' = now + DecayTickMs
    /\ store' = Purge(store, now')
    /\ UNCHANGED <<built, script_sha, script_cache, options, pc, loc, calls,
                   overlapped, log>>

NextDecay ==
    \/ TickDecay
    \/ EnterWith(1, Identifiers, DecayMaxCalls)
    \/ SlidingScript(1)
    \/ SlidingReturn(1)

SpecDecay == InitDecay /\ [][NextDecay]_vars

\* floor(previous_count * time_remaining_previous / window_ms) + current_count
\* for the identifier, at the present instant and on the present store
WeightedUsage(identifier) ==
    LET w == now \div (options.window * 1000)
        previous_count == Get(store, getKey(identifier, ToString(w - 1)))
        current_count == Get(store, getKey(identifier, ToString(w)))
    IN  ((previous_count * (options.window * 1000 - (now % (options.window * 1000))))
             \div (options.window * 1000)) + current_count
\* a call for the identifier made now would be admitted
WouldAdmit(identifier) == WeightedUsage(identifier) + 1 <= options.limit
\* some call is admitted in this step
AdmissionStep == \E p \in Callers : ScriptStep(p) /\ loc'[p].reply[1] >= 0

\* C37: sliding window, in every step in which no call is admitted the
\* weighted usage of an identifier does not increase as time advances, window
\* boundaries and key expirations included; so if a call would be admitted
\* now, it would be admitted at every later instant until some call is
\* admitted. A call that runs at the instant it read is admitted exactly when
\* a call made now would be.
C37_UsageDecays ==
    /\ [][(options.type = "sliding" /\ ~AdmissionStep) =>
              \A identifier \in Identifiers :
                  /\ WeightedUsage(identifier)' <= WeightedUsage(identifier)
                  /\ WouldAdmit(identifier) => WouldAdmit(identifier)']_vars
    /\ [][\A p \in Callers :
              (ScriptStep(p) /\ loc[p].now = now) =>
                  (loc'[p].reply[1] >= 0) = WouldAdmit(loc[p].identifier)]_vars

\* the limit was used up in one window; in the next window the usage has
\* decayed below the limit and a call made now would be admitted
C37_Witness ==
    \E identifier \in Identifiers :
        /\ Get(store, previous_key(identifier, now)) = options.limit
        /\ now % window_ms # 0
        /\ WeightedUsage(identifier) < options.limit
        /\ WeightedUsage(identifier) > 0
        /\ WouldAdmit(identifier)
        /\ \E i \in 1..Len(log) : ~log[i].success

\* the clock has passed the expiration of the first window's counter
C37_WitnessExpired ==
    \E i \in 1..Len(log) :
        /\ log[i].success
        /\ current_window(log[i].entry) = 0
        /\ current_key(log[i].identifier, 0) \notin DOMAIN store
        /\ \E k \in DOMAIN store : TRUE

(* ------------------------------ C38 ------------------------------------ *)
\* caller p's call is about to return; it was made for the same identifier at
\* the same instant as the call that returned last, after that call returned,
\* no call overlapped another and the clock has not moved
FollowsLastCall(p) ==
    /\ Returning(p)
    /\ ~overlapped
    /\ Len(log) >= 1
    /\ log[Len(log)].identifier = loc[p].identifier
    /\ log[Len(log)].entry = loc[p].now
    /\ now = loc[p].now

\* C38: both algorithms, if a call returns success = true with remaining = r,
\* a further call for the same identifier at the same instant, with no other
\* call in between, is admitted if and only if r > 0, and then reports
\* remaining = r - 1.
C38_RemainingPredictsNext ==
    \A p \in Callers :
        (FollowsLastCall(p) /\ log[Len(log)].success) =>
            /\ ResponseOf(p).success = (log[Len(log)].remaining > 0)
            /\ ResponseOf(p).success =>
                   ResponseOf(p).remaining = log[Len(log)].remaining - 1

\* a call reported remaining = 1 and the call that follows it at the same
\* instant is admitted with remaining = 0
C38_Witness ==
    \E p \in Callers :
        /\ FollowsLastCall(p)
        /\ log[Len(log)].success
        /\ log[Len(log)].remaining = 1
        /\ ResponseOf(p).success
        /\ ResponseOf(p).remaining = 0

\* a sliding call reported remaining = 0 in a window with a previous count and
\* the call that follows it at the same instant is denied
C38_WitnessDenied ==
    \E p \in Callers :
        /\ FollowsLastCall(p)
        /\ options.type = "sliding"
        /\ PreviousKeyOf(p) \in DOMAIN store
        /\ log[Len(log)].success
        /\ log[Len(log)].remaining = 0
        /\ ~ResponseOf(p).success

(* ------------------------------ C39 ------------------------------------ *)
\* The handle-caching sliding limiter on a store that can forget its scripts
\* (SCRIPT FLUSH, or a restart, which may also lose the counters).
InitFlush ==
    /\ options \in {o \in [type : {"sliding"}, limit : {1},
                          window : {1}, prefix : {""}] :
                        validateOptions(o)}
    /\ built = "constructed"
    /\ script_sha = NoSha
    /\ script_cache = {}
    /\ now = 0
    /\ store = <<>>
    /\ pc = [p \in Callers |-> "idle"]
    /\ loc = [p \in Callers |-> IdleLoc]
    /\ calls = 0
    /\ overlapped = FALSE
    /\ log = <<>>

\* the store forgets the scripts it had loaded
Flush ==
    /\ script_cache # {}
    /\ script_cache' = {}
    /\ store' \in {store, <<>>}
    /\ UNCHANGED <<built, script_sha, options, now, pc, loc, calls, overlapped, log>>

\* the reply of EVALSHA for a handle the store does not know
NoScript == [type |-> "Error", message |-> "NOSCRIPT No matching script"]

\* await this.redis.evalSha(this.script_sha!, ...) rejects: the store does not
\* have the script
EvalShaNoScript(p) ==
    /\ pc[p] = "script"
    /\ script_sha \notin script_cache
    /\ loc' = [loc EXCEPT ![p].rejection = NoScript]
    /\ pc' = [pc EXCEPT ![p] = "catch"]
    /\ UNCHANGED <<built, script_sha, script_cache, options, now, store, calls,
                   overlapped, log>>

NextFlush ==
    \/ Flush
    \/ \E p \in Callers : EnterCaching(p)
    \/ \E p \in Callers : LoadScript(p)
    \/ \E p \in Callers : EvalSha(p)
    \/ \E p \in Callers : EvalShaNoScript(p)
    \/ \E p \in Callers : SlidingReturn(p)
    \/ \E p \in Callers : LimitCatchCaching(p)
    \/ \E p \in Callers : LimitThrow(p)

SpecFlush == InitFlush /\ [][NextFlush]_vars

\* the limiter holds a handle for a script the store no longer has
Forgotten == script_sha # NoSha /\ script_sha \notin script_cache
\* caller p's call is entered in this step
EnterStep(p) == pc[p] = "idle" /\ pc'[p] # "idle"

\* C39 as stated: once the handle is cached the script is never loaded again,
\* so a store that has forgotten the script stays without it, and from then on
\* no sliding call is decided.
C39_AsStated ==
    [][Forgotten =>
           /\ Forgotten'
           /\ \A p \in Callers : ~ScriptStep(p)]_vars

\* C39: handle-caching limiter, a call that finds the handle cached never
\* loads the script and the handle never changes; while the store lacks the
\* script the handle names, every script evaluation is rejected and the call
\* fails with the store-operation error, and no call is decided; the store
\* gets the script back only through a load that a concurrent first call
\* still had in flight, and when no such load is in flight it stays without it.
C39_NoReload ==
    /\ [][\A p \in Callers :
              (EnterStep(p) /\ script_sha # NoSha) => pc'[p] = "script"]_vars
    /\ [][script_sha # NoSha => script_sha' = script_sha]_vars
    /\ [][Forgotten =>
              \A p \in Callers :
                  /\ ~ScriptStep(p)
                  /\ (pc[p] = "script" /\ CallStep(p)) => pc'[p] = "catch"]_vars
    /\ [][(Forgotten /\ ~Forgotten') =>
              \E p \in Callers : LoadStep(p) /\ pc'[p] = "script"]_vars
    /\ [][(Forgotten /\ \A p \in Callers : pc[p] # "load") => Forgotten']_vars
    /\ [](\A p \in Callers :
              pc[p] = "throw" =>
                  /\ loc[p].error.name = "RedisError"
                  /\ loc[p].error.message = "Failed to check rate limit")

\* a call was decided, then the store forgot the script: the next call, made
\* alone, has failed and the one after it is about to fail
C39_Witness ==
    \E p \in Callers :
        /\ Forgotten
        /\ ~overlapped
        /\ Len(log) = 1
        /\ ThrownCalls = 1
        /\ pc[p] = "throw"
        /\ loc[p].error.originalError = NoScript

\* the store forgot the script while a concurrent first call still had its
\* load in flight; that load brought the script back and a call made after
\* the loss has been decided
C39_WitnessReloaded ==
    \E p \in Callers :
        /\ ThrownCalls >= 1
        /\ script_sha \in script_cache
        /\ pc[p] = "sreturn"

====
